------------------------- MODULE RingBufferProofs -------------------------
(***************************************************************************)
(* Proofs about RingBuffer, for every capacity, every counter width and    *)
(* every number of pushes: no object is overwritten, moved from twice or   *)
(* lost, the two threads never touch one slot at once, and the buffer is a *)
(* bounded FIFO queue.                                                     *)
(*                                                                         *)
(* The argument: whatever stale values the two threads load, the producer  *)
(* never runs more than Capacity ahead of the newest read_seq_ it has      *)
(* seen, and the consumer never passes the newest write_seq_ it has seen.  *)
(* The numbers in flight therefore lie in a window of at most Capacity,    *)
(* where slots are distinct and the wrapped difference is the true one.    *)
(***************************************************************************)
EXTENDS RingBuffer, SequenceTheorems, TLAPS

(* How far the two threads can be apart, given what each has loaded.       *)
InWindow ==
    /\ r_seen <= read_seq_
    /\ read_seq_ <= w_seen
    /\ w_seen <= write_seq_
    /\ write_seq_ - r_seen <= Capacity
    /\ ppc \in {"construct", "publish"} => write_seq_ - r_seen < Capacity
    /\ ppc # "idle" => write_seq_ < MaxPush
    /\ cpc \in {"move", "publish"} => read_seq_ < w_seen

(* A thread inside a call knows which call it is and what it pushes; the   *)
(* destructor waits for both threads to be done.                           *)
InCall ==
    /\ ppc # "idle" => pcall \in PushOps /\ item \in Value
    /\ cpc # "idle" => ccall \in PopOps
    /\ ~alive => ppc = "idle" /\ cpc = "idle"

(* The slots that hold an object are those of the numbers in Holding.      *)
HeldSlots ==
    alive => \A k \in Slot : storage_[k] # Raw <=> \E n \in Holding : slot_(n) = k

(* What the destructor leaves behind. *)
Destroyed ==
    ~alive /\ ~Straddling => \A k \in Slot : storage_[k] = Raw

IInv == TypeOK /\ InWindow /\ InCall /\ HeldSlots /\ Destroyed

-----------------------------------------------------------------------------
(* Counters and slots *)

(* A remainder is determined by any division that leaves it. *)
LEMMA RemainderUnique ==
    ASSUME NEW m \in Nat \ {0}, NEW q \in Int, NEW r \in 0 .. (m - 1)
    PROVE  (q * m + r) % m = r
<1> DEFINE n == q * m + r
           p == n \div m
           s == n % m
<1>1. n \in Int /\ p \in Int /\ s \in 0 .. (m - 1) /\ n = p * m + s
  OBVIOUS
<1>2. (q - p) * m = s - r
  BY <1>1
<1>3. CASE q - p >= 1
  <2>1. (q - p) * m >= m
    BY <1>1, <1>3
  <2> QED
    BY <2>1, <1>1, <1>2
<1>4. CASE q - p <= -1
  <2>1. (q - p) * m <= -m
    BY <1>1, <1>4
  <2> QED
    BY <2>1, <1>1, <1>2
<1>5. CASE q = p
  BY <1>1, <1>2, <1>5
<1> QED
  BY <1>1, <1>3, <1>4, <1>5

(* Division with remainder. *)
LEMMA Division ==
    ASSUME NEW m \in Nat \ {0}, NEW n \in Int
    PROVE  /\ n % m \in 0 .. (m - 1)
           /\ \E q \in Int : n = q * m + (n % m)
<1>1. n \div m \in Int /\ n = (n \div m) * m + (n % m) /\ n % m \in 0 .. (m - 1)
  OBVIOUS
<1> QED
  BY <1>1

(* Both moduli are positive, and the width of size_t is a multiple of the  *)
(* capacity.                                                               *)
LEMMA Moduli ==
    /\ Capacity \in Nat \ {0} /\ SeqMod \in Nat \ {0}
    /\ \E c \in Int : SeqMod = c * Capacity
<1>1. Capacity \in Nat \ {0} /\ SeqMod \in Nat \ {0} /\ SeqMod \in Int
  BY RingAssumption
<1>2. PICK c \in Int : SeqMod = c * Capacity + (SeqMod % Capacity)
  BY <1>1, Division, Zenon
<1>3. SeqMod = c * Capacity
  BY <1>1, <1>2, RingAssumption
<1> QED
  BY <1>1, <1>3

(* A counter and its wrapped form. *)
LEMMA SeenDivision ==
    ASSUME NEW n \in Nat
    PROVE  /\ Seen(n) \in 0 .. (SeqMod - 1) /\ Seen(n) \in Int
           /\ \E q \in Int : n = q * SeqMod + Seen(n)
<1>1. SeqMod \in Nat \ {0} /\ n \in Int
  BY Moduli
<1>2. Seen(n) \in 0 .. (SeqMod - 1) /\ \E q \in Int : n = q * SeqMod + Seen(n)
  BY <1>1, Division, Zenon DEF Seen
<1>3. Seen(n) \in Int
  BY <1>1, <1>2
<1> QED
  BY <1>2, <1>3, Zenon

(* A wrapped counter still names the slot of the counter it stands for.    *)
LEMMA SlotOfCounter ==
    ASSUME NEW n \in Nat
    PROVE  /\ slot_(n) \in Slot /\ slot_(n) \in Int
           /\ \E q \in Int : n = q * Capacity + slot_(n)
<1> DEFINE s == Seen(n)
           t == s % Capacity
<1>1. PICK c \in Int : SeqMod = c * Capacity
  BY Moduli
<1>2. PICK q \in Int : n = q * SeqMod + s
  BY SeenDivision, Zenon
<1>3. s \in Int /\ Capacity \in Nat \ {0}
  BY SeenDivision, Moduli, Zenon
<1>4. t \in 0 .. (Capacity - 1) /\ \E p \in Int : s = p * Capacity + t
  BY <1>3, Division, Zenon
<1>5. PICK p \in Int : s = p * Capacity + t
  BY <1>4
<1>6. n = (q * c + p) * Capacity + t
  <2> HIDE DEF s, t
  <2>1. q * (c * Capacity) = (q * c) * Capacity
    BY <1>3
  <2>2. (q * c + p) * Capacity = (q * c) * Capacity + p * Capacity
    BY <1>3
  <2>3. t \in Int
    BY <1>3, <1>4
  <2> QED
    BY <1>1, <1>2, <1>3, <1>5, <2>1, <2>2, <2>3
<1>7. q * c + p \in Int /\ t \in Int
  <2> HIDE DEF t
  <2> QED
    BY <1>3, <1>4
<1> QED
  BY <1>4, <1>6, <1>7, Zenon DEF slot_, Slot

(* A number of bounded size is no multiple of a larger one, except zero. *)
LEMMA SmallMultiple ==
    ASSUME NEW m \in Nat \ {0}, NEW k \in Int, k * m \in 0 .. (m - 1)
    PROVE  k * m = 0
<1>1. CASE k >= 1
  <2>1. k * m >= m
    BY <1>1
  <2> QED
    BY <2>1
<1>2. CASE k <= 0
  <2>1. k * m <= 0
    BY <1>2
  <2> QED
    BY <2>1
<1> QED
  BY <1>1, <1>2

(* Two numbers less than Capacity apart have different slots. *)
LEMMA SlotsApart ==
    ASSUME NEW a \in Nat, NEW b \in Nat, a < b, b - a < Capacity
    PROVE  slot_(a) # slot_(b)
<1>1. PICK p \in Int : a = p * Capacity + slot_(a)
  BY SlotOfCounter, Zenon
<1>2. PICK q \in Int : b = q * Capacity + slot_(b)
  BY SlotOfCounter, Zenon
<1>3. SUFFICES ASSUME slot_(a) = slot_(b) PROVE FALSE
  OBVIOUS
<1>4. slot_(a) \in Int /\ Capacity \in Nat \ {0}
  BY SlotOfCounter, Moduli, Zenon
<1>5. (q - p) * Capacity = b - a
  BY <1>1, <1>2, <1>3, <1>4
<1>6. b - a \in 0 .. (Capacity - 1) /\ b - a # 0 /\ q - p \in Int
  BY <1>4
<1> QED
  BY <1>4, <1>5, <1>6, SmallMultiple, Zenon

(* The difference of two wrapped counters is the true one while they are   *)
(* less than the width of size_t apart.                                    *)
LEMMA WrappedDifference ==
    ASSUME NEW a \in Nat, NEW b \in Nat, a <= b, b - a < SeqMod
    PROVE  (Seen(b) - Seen(a)) % SeqMod = b - a
<1>1. PICK p \in Int : a = p * SeqMod + Seen(a)
  BY SeenDivision, Zenon
<1>2. PICK q \in Int : b = q * SeqMod + Seen(b)
  BY SeenDivision, Zenon
<1>3. Seen(a) \in Int /\ Seen(b) \in Int /\ SeqMod \in Nat \ {0}
  BY SeenDivision, Moduli, Zenon
<1>4. Seen(b) - Seen(a) = (p - q) * SeqMod + (b - a)
  BY <1>1, <1>2, <1>3
<1>5. b - a \in 0 .. (SeqMod - 1) /\ p - q \in Int
  BY <1>3
<1> QED
  BY <1>3, <1>4, <1>5, RemainderUnique, Zenon

(* What the two tests mean for counters that are close enough. *)
LEMMA RoomSeen ==
    ASSUME NEW w \in Nat, NEW r \in Nat, r <= w, w - r <= Capacity, ~NoRoom(w, r)
    PROVE  w - r < Capacity
<1>1. w - r < SeqMod
  BY RingAssumption
<1>2. (Seen(w) - Seen(r)) % SeqMod = w - r
  BY <1>1, WrappedDifference
<1> QED
  BY <1>2, RingAssumption DEF NoRoom

LEMMA SomethingSeen ==
    ASSUME NEW op, NEW w \in Nat, NEW r \in Nat, r <= w, ~Nothing(op, r, w)
    PROVE  r < w
<1>1. Seen(r) \in Int
  BY SeenDivision, Zenon
<1>2. r # w
  BY <1>1 DEF Nothing
<1> QED
  BY <1>2

(* Two counters that look alike are equal while they are less than the     *)
(* width of size_t apart.                                                  *)
LEMMA SeenApart ==
    ASSUME NEW a \in Nat, NEW b \in Nat, a <= b, b - a < SeqMod, Seen(a) = Seen(b)
    PROVE  a = b
<1>1. PICK p \in Int : a = p * SeqMod + Seen(a)
  BY SeenDivision, Zenon
<1>2. PICK q \in Int : b = q * SeqMod + Seen(b)
  BY SeenDivision, Zenon
<1>3. Seen(a) \in Int /\ SeqMod \in Nat \ {0}
  BY SeenDivision, Moduli, Zenon
<1>4. (q - p) * SeqMod = b - a
  BY <1>1, <1>2, <1>3
<1>5. b - a \in 0 .. (SeqMod - 1) /\ q - p \in Int
  BY <1>3
<1>6. b - a = 0
  BY <1>3, <1>4, <1>5, SmallMultiple, Zenon
<1> QED
  BY <1>6

-----------------------------------------------------------------------------
(* The inductive invariant *)

(* The numbers in Holding are less than Capacity apart. *)
LEMMA HoldingApart ==
    ASSUME TypeOK, InWindow, NEW m \in Holding, NEW n \in Holding
    PROVE  /\ m \in Nat /\ n \in Nat
           /\ m # n => slot_(m) # slot_(n)
<1>1. /\ m \in Nat /\ n \in Nat
      /\ m < n => n - m < Capacity
      /\ n < m => m - n < Capacity
  BY RingAssumption DEF TypeOK, InWindow, Holding
<1>2. CASE m < n
  BY <1>1, <1>2, SlotsApart
<1>3. CASE n < m
  BY <1>1, <1>3, SlotsApart
<1> QED
  BY <1>1, <1>2, <1>3

LEMMA InitInv == Init => IInv
<1> SUFFICES ASSUME Init PROVE IInv
  OBVIOUS
<1>1. TypeOK
  BY RingAssumption DEF Init, TypeOK
<1>2. InWindow
  BY RingAssumption DEF Init, InWindow
<1>3. InCall
  BY DEF Init, InCall
<1>4. HeldSlots
  <2>1. Holding = {}
    BY DEF Init, Holding
  <2> QED
    BY <2>1 DEF Init, HeldSlots
<1>5. Destroyed
  BY DEF Init, Destroyed
<1> QED
  BY <1>1, <1>2, <1>3, <1>4, <1>5 DEF IInv

(* A step that leaves storage_ and Holding alone keeps HeldSlots. *)
LEMMA SameHeld ==
    ASSUME HeldSlots, storage_' = storage_, Holding' = Holding, alive' = alive
    PROVE  HeldSlots'
BY DEF HeldSlots

LEMMA PushCallInv ==
    ASSUME IInv, NEW v \in Value, NEW op \in PushOps, PushCall(v, op)
    PROVE  IInv'
<1> USE DEF PushCall, producer, consumer
<1>1. TypeOK'
  BY DEF IInv, TypeOK
<1>2. InWindow'
  BY DEF IInv, InWindow
<1>3. InCall'
  BY DEF IInv, InCall
<1>4. HeldSlots'
  <2>1. Holding' = Holding
    BY DEF Holding
  <2> QED
    BY <2>1, SameHeld DEF IInv
<1>5. Destroyed'
  BY DEF Destroyed
<1> QED
  BY <1>1, <1>2, <1>3, <1>4, <1>5 DEF IInv

LEMMA PushLoadInv ==
    ASSUME IInv, NEW r \in r_seen .. read_seq_, PushLoad(r)
    PROVE  IInv'
<1> USE DEF PushLoad, producer, consumer
<1>1. /\ alive /\ pcall \in {"try_push", "push"}
      /\ write_seq_ \in Nat /\ r \in 0 .. MaxPush /\ read_seq_ \in Nat /\ r_seen \in Nat
      /\ r <= write_seq_ /\ write_seq_ - r <= Capacity
  BY RingAssumption DEF IInv, TypeOK, InWindow, InCall
<1>2. ppc' \in {"construct", "idle", "load"}
  BY <1>1
<1>3. ppc' = "construct" => write_seq_ - r < Capacity
  <2>1. ppc' = "construct" => ~NoRoom(write_seq_, r)
    BY <1>1
  <2> QED
    BY <1>1, <2>1, RoomSeen
<1> HIDE DEF PushLoad
<1>4. /\ r_seen' = r /\ ppc = "load"
      /\ UNCHANGED <<write_seq_, read_seq_, storage_, pcall, item, consumer, alive>>
  BY DEF PushLoad
<1>5. TypeOK'
  BY <1>1, <1>2, <1>4 DEF IInv, TypeOK, InWindow
<1>6. InWindow'
  BY <1>1, <1>2, <1>3, <1>4 DEF IInv, TypeOK, InWindow
<1>7. InCall'
  BY <1>1, <1>4 DEF IInv, InCall
<1>8. HeldSlots'
  <2>1. Holding' = Holding
    BY <1>2, <1>4 DEF Holding
  <2> QED
    BY <1>4, <2>1, SameHeld DEF IInv
<1>9. Destroyed'
  BY <1>1, <1>4 DEF Destroyed
<1> QED
  BY <1>5, <1>6, <1>7, <1>8, <1>9 DEF IInv

LEMMA PushConstructInv ==
    ASSUME IInv, PushConstruct
    PROVE  IInv'
<1> USE DEF PushConstruct, producer, consumer
<1> DEFINE s == slot_(write_seq_)
<1>1. alive /\ item \in Value /\ write_seq_ \in Nat
  BY DEF IInv, TypeOK, InCall
<1>2. s \in Slot
  BY <1>1, SlotOfCounter
<1>3. TypeOK'
  BY <1>1, <1>2 DEF IInv, TypeOK
<1>4. InWindow'
  BY DEF IInv, InWindow
<1>5. InCall'
  BY <1>1 DEF IInv, InCall
<1>6. HeldSlots'
  <2>1. Holding' = Holding \cup {write_seq_}
    BY DEF IInv, TypeOK, InWindow, Holding
  <2>2. ASSUME NEW k \in Slot
        PROVE  storage_'[k] # Raw <=> k = s \/ storage_[k] # Raw
    BY <1>1, <1>2, RingAssumption DEF IInv, TypeOK
  <2>3. ASSUME NEW k \in Slot
        PROVE  storage_'[k] # Raw <=> \E n \in Holding' : slot_(n) = k
    BY <1>1, <2>1, <2>2, Zenon DEF IInv, HeldSlots
  <2> QED
    BY <2>3 DEF HeldSlots
<1>7. Destroyed'
  BY <1>1 DEF Destroyed
<1> QED
  BY <1>3, <1>4, <1>5, <1>6, <1>7 DEF IInv

LEMMA PushPublishInv ==
    ASSUME IInv, PushPublish
    PROVE  IInv'
<1> USE DEF PushPublish, producer, consumer
<1>1. alive
  BY DEF IInv, InCall
<1>2. TypeOK'
  BY RingAssumption DEF IInv, TypeOK, InWindow
<1>3. InWindow'
  BY RingAssumption DEF IInv, TypeOK, InWindow
<1>4. InCall'
  BY <1>1 DEF IInv, InCall
<1>5. HeldSlots'
  <2>1. Holding' = Holding
    BY DEF IInv, TypeOK, Holding
  <2> QED
    BY <2>1, SameHeld DEF IInv
<1>6. Destroyed'
  BY <1>1 DEF Destroyed
<1> QED
  BY <1>2, <1>3, <1>4, <1>5, <1>6 DEF IInv

LEMMA PopCallInv ==
    ASSUME IInv, NEW op \in PopOps, PopCall(op)
    PROVE  IInv'
<1> USE DEF PopCall, producer, consumer
<1>1. TypeOK'
  BY DEF IInv, TypeOK
<1>2. InWindow'
  BY DEF IInv, InWindow
<1>3. InCall'
  BY DEF IInv, InCall
<1>4. HeldSlots'
  <2>1. Holding' = Holding
    BY DEF Holding
  <2> QED
    BY <2>1, SameHeld DEF IInv
<1>5. Destroyed'
  BY DEF Destroyed
<1> QED
  BY <1>1, <1>2, <1>3, <1>4, <1>5 DEF IInv

LEMMA PopLoadInv ==
    ASSUME IInv, NEW w \in w_seen .. write_seq_, PopLoad(w)
    PROVE  IInv'
<1> USE DEF PopLoad, producer, consumer
<1>1. /\ alive /\ ccall \in {"try_pop", "pop"}
      /\ write_seq_ \in Nat /\ w \in 0 .. MaxPush /\ read_seq_ \in Nat /\ w_seen \in Nat
      /\ read_seq_ <= w
  BY RingAssumption DEF IInv, TypeOK, InWindow, InCall
<1>2. cpc' \in {"move", "idle", "load"}
  BY <1>1
<1>3. cpc' = "move" => read_seq_ < w
  <2>1. cpc' = "move" => ~Nothing(ccall, read_seq_, w)
    BY <1>1
  <2> QED
    BY <1>1, <2>1, SomethingSeen
<1> HIDE DEF PopLoad
<1>4. /\ w_seen' = w /\ cpc = "load"
      /\ UNCHANGED <<write_seq_, read_seq_, storage_, ccall, taken, producer, alive>>
  BY DEF PopLoad
<1>5. TypeOK'
  BY <1>1, <1>2, <1>4 DEF IInv, TypeOK, InWindow
<1>6. InWindow'
  BY <1>1, <1>2, <1>3, <1>4 DEF IInv, TypeOK, InWindow
<1>7. InCall'
  BY <1>1, <1>4 DEF IInv, InCall
<1>8. HeldSlots'
  <2>1. Holding' = Holding
    BY <1>2, <1>4 DEF Holding
  <2> QED
    BY <1>4, <2>1, SameHeld DEF IInv
<1>9. Destroyed'
  BY <1>1, <1>4 DEF Destroyed
<1> QED
  BY <1>5, <1>6, <1>7, <1>8, <1>9 DEF IInv

(* What the slot under read_seq_ holds when the consumer moves out of it.  *)
LEMMA MovesAnObject ==
    ASSUME IInv, cpc = "move"
    PROVE  /\ alive /\ read_seq_ \in Holding /\ slot_(read_seq_) \in Slot
           /\ storage_[slot_(read_seq_)] \in Value
<1>1. alive /\ read_seq_ \in Nat
  BY DEF IInv, TypeOK, InCall
<1>2. read_seq_ \in Holding
  BY DEF IInv, TypeOK, InWindow, Holding
<1>3. slot_(read_seq_) \in Slot
  BY <1>1, SlotOfCounter
<1>4. storage_[slot_(read_seq_)] # Raw
  BY <1>1, <1>2, <1>3 DEF IInv, HeldSlots
<1> QED
  BY <1>1, <1>2, <1>3, <1>4 DEF IInv, TypeOK

LEMMA PopMoveInv ==
    ASSUME IInv, PopMove
    PROVE  IInv'
<1> USE DEF PopMove, producer, consumer
<1> DEFINE s == slot_(read_seq_)
<1>1. alive /\ read_seq_ \in Holding /\ s \in Slot /\ storage_[s] \in Value
  BY MovesAnObject
<1>2. TypeOK'
  BY <1>1 DEF IInv, TypeOK
<1>3. InWindow'
  BY DEF IInv, InWindow
<1>4. InCall'
  BY <1>1 DEF IInv, InCall
<1>5. HeldSlots'
  <2>1. Holding' = Holding \ {read_seq_}
    BY DEF IInv, TypeOK, InWindow, Holding
  <2>2. ASSUME NEW k \in Slot
        PROVE  storage_'[k] # Raw <=> k # s /\ storage_[k] # Raw
    BY <1>1 DEF IInv, TypeOK
  <2>3. \A n \in Holding : n # read_seq_ => slot_(n) # s
    BY <1>1, HoldingApart DEF IInv
  <2>4. ASSUME NEW k \in Slot
        PROVE  storage_'[k] # Raw <=> \E n \in Holding' : slot_(n) = k
    BY <1>1, <2>1, <2>2, <2>3, Zenon DEF IInv, HeldSlots
  <2> QED
    BY <2>4 DEF HeldSlots
<1>6. Destroyed'
  BY <1>1 DEF Destroyed
<1> QED
  BY <1>2, <1>3, <1>4, <1>5, <1>6 DEF IInv

LEMMA PopPublishInv ==
    ASSUME IInv, PopPublish
    PROVE  IInv'
<1> USE DEF PopPublish, producer, consumer
<1>1. alive
  BY DEF IInv, InCall
<1>2. TypeOK'
  BY RingAssumption DEF IInv, TypeOK, InWindow
<1>3. InWindow'
  BY RingAssumption DEF IInv, TypeOK, InWindow
<1>4. InCall'
  BY <1>1 DEF IInv, InCall
<1>5. HeldSlots'
  <2>1. Holding' = Holding
    BY DEF IInv, TypeOK, Holding
  <2> QED
    BY <2>1, SameHeld DEF IInv
<1>6. Destroyed'
  BY <1>1 DEF Destroyed
<1> QED
  BY <1>2, <1>3, <1>4, <1>5, <1>6 DEF IInv

LEMMA DestroyInv ==
    ASSUME IInv, Destroy
    PROVE  IInv'
<1> USE DEF Destroy, producer, consumer
<1>1. TypeOK'
  BY DEF IInv, TypeOK
<1>2. InWindow'
  BY DEF IInv, InWindow
<1>3. InCall'
  BY DEF IInv, InCall
<1>4. HeldSlots'
  BY DEF HeldSlots
<1>5. Destroyed'
  <2> SUFFICES ASSUME ~Straddling, NEW k \in Slot
               PROVE  storage_'[k] = Raw
    BY DEF Destroyed, Straddling
  <2>1. Holding = read_seq_ .. (write_seq_ - 1)
    BY DEF Holding
  <2>2. Left = Holding
    <3>1. /\ read_seq_ \in Nat /\ write_seq_ \in Nat /\ read_seq_ <= write_seq_
          /\ write_seq_ - read_seq_ < SeqMod
      BY RingAssumption DEF IInv, TypeOK, InWindow
    <3>2. Seen(read_seq_) \in Int /\ Seen(write_seq_) \in Int
      BY <3>1, SeenDivision
    <3>3. CASE Seen(read_seq_) < Seen(write_seq_)
      BY <2>1, <3>3 DEF Left
    <3>4. CASE Seen(read_seq_) = Seen(write_seq_)
      <4>1. read_seq_ = write_seq_
        BY <3>1, <3>4, SeenApart
      <4> QED
        BY <2>1, <3>1, <4>1 DEF Left
    <3> QED
      BY <3>2, <3>3, <3>4 DEF Straddling
  <2>3. storage_[k] # Raw <=> \E n \in Left : slot_(n) = k
    BY <2>2 DEF IInv, HeldSlots
  <2> QED
    BY <2>3
<1> QED
  BY <1>1, <1>2, <1>3, <1>4, <1>5 DEF IInv

LEMMA StutterInv ==
    ASSUME IInv, UNCHANGED vars
    PROVE  IInv'
BY DEF IInv, vars, producer, consumer, TypeOK, InWindow, InCall, HeldSlots, Destroyed,
       Holding, Straddling

THEOREM RingInvariance == Spec => []IInv
<1>1. Init => IInv
  BY InitInv
<1>2. IInv /\ [Next]_vars => IInv'
  <2> SUFFICES ASSUME IInv, [Next]_vars PROVE IInv'
    OBVIOUS
  <2> QED
    BY PushCallInv, PushLoadInv, PushConstructInv, PushPublishInv, PopCallInv, PopLoadInv,
       PopMoveInv, PopPublishInv, DestroyInv, StutterInv DEF Next
<1> QED
  BY <1>1, <1>2, PTL DEF Spec

(* Types, for every capacity, counter width and number of pushes. *)
THEOREM RingTypes == Spec => []TypeOK
<1>1. IInv => TypeOK
  BY DEF IInv
<1> QED
  BY <1>1, RingInvariance, PTL

(* No object is overwritten, moved from twice or lost, and the destructor  *)
(* leaves none behind unless the counters straddle the end of their range. *)
THEOREM NoObjectLost == Spec => []SlotsHoldExactly
<1>1. IInv => SlotsHoldExactly
  <2> SUFFICES ASSUME IInv PROVE SlotsHoldExactly
    OBVIOUS
  <2>1. \A m, n \in Holding : m # n => slot_(m) # slot_(n)
    BY HoldingApart DEF IInv
  <2> QED
    BY <2>1 DEF IInv, HeldSlots, Destroyed, SlotsHoldExactly
<1> QED
  BY <1>1, RingInvariance, PTL

(* The producer never constructs in the slot the consumer is moving out of. *)
THEOREM SlotNeverShared == Spec => []NoSharedSlot
<1>1. IInv => NoSharedSlot
  <2> SUFFICES ASSUME IInv, ppc = "construct", cpc = "move"
               PROVE  slot_(write_seq_) # slot_(read_seq_)
    BY DEF NoSharedSlot
  <2>1. /\ read_seq_ \in Nat /\ write_seq_ \in Nat
        /\ read_seq_ < write_seq_ /\ write_seq_ - read_seq_ < Capacity
    BY RingAssumption DEF IInv, TypeOK, InWindow
  <2> QED
    BY <2>1, SlotsApart
<1> QED
  BY <1>1, RingInvariance, PTL

-----------------------------------------------------------------------------
(* The buffer implements the bounded queue of Fifo *)

(* The queue under the refinement mapping. *)
Queued == write_seq_ - read_seq_ - Moved
Items ==
    IF alive THEN [k \in 1 .. Queued |-> storage_[slot_(read_seq_ + Moved + k - 1)]] ELSE <<>>

(* It is a sequence of values, one for each number published and not moved. *)
ItemsQueued ==
    /\ Items \in Seq(Value) /\ Len(Items) = Queued /\ Queued \in Nat
    /\ \A k \in 1 .. Queued : Items[k] = storage_[slot_(read_seq_ + Moved + k - 1)]

LEMMA ItemsAreValues == IInv /\ alive => ItemsQueued
<1> SUFFICES ASSUME IInv, alive PROVE ItemsQueued
  OBVIOUS
<1>1. Queued \in Nat
  BY DEF IInv, TypeOK, InWindow, Queued, Moved
<1>2. ASSUME NEW k \in 1 .. Queued
      PROVE  storage_[slot_(read_seq_ + Moved + k - 1)] \in Value
  <2> DEFINE n == read_seq_ + Moved + k - 1
  <2>1. n \in Nat /\ n \in Holding
    BY DEF IInv, TypeOK, InWindow, Queued, Moved, Holding
  <2>2. slot_(n) \in Slot
    BY <2>1, SlotOfCounter
  <2>3. storage_[slot_(n)] # Raw
    BY <2>1, <2>2 DEF IInv, HeldSlots
  <2> QED
    BY <2>2, <2>3 DEF IInv, TypeOK
<1>3. Items \in [1 .. Queued -> Value]
  BY <1>2 DEF Items
<1>4. Items \in Seq(Value)
  BY <1>1, <1>3, SeqDef
<1>5. Len(Items) = Queued
  <2>1. DOMAIN Items = 1 .. Queued /\ DOMAIN Items = 1 .. Len(Items) /\ Len(Items) \in Nat
    BY <1>3, <1>4, LenProperties
  <2> QED
    BY <1>1, <2>1
<1> QED
  BY <1>1, <1>4, <1>5 DEF Items, ItemsQueued

LEMMA ItemsAreValuesNext == IInv' /\ alive' => ItemsQueued'
BY ItemsAreValues, PTL

(* Publishing appends the item constructed. *)
LEMMA PublishPuts ==
    ASSUME IInv, IInv', PushPublish
    PROVE  \E v \in Value : /\ alive /\ Len(Items) < Capacity
                            /\ Items' = Append(Items, v)
                            /\ taken' = taken /\ alive' = alive
<1> DEFINE v == storage_[slot_(write_seq_)]
<1>1. /\ ppc = "publish" /\ write_seq_' = write_seq_ + 1
      /\ UNCHANGED <<read_seq_, storage_, cpc, taken, alive>>
  BY DEF PushPublish, consumer
<1>2. alive /\ alive' /\ write_seq_ \in Nat
  BY <1>1 DEF IInv, TypeOK, InCall
<1>3. v \in Value
  <2>1. write_seq_ \in Holding /\ slot_(write_seq_) \in Slot
    BY <1>1, <1>2, SlotOfCounter DEF IInv, TypeOK, InWindow, Holding
  <2> QED
    BY <1>2, <2>1 DEF IInv, TypeOK, HeldSlots
<1>4. Queued' = Queued + 1 /\ Queued < Capacity /\ Moved' = Moved
      /\ write_seq_ = read_seq_ + Moved + (Queued + 1) - 1
  BY <1>1, RingAssumption DEF IInv, TypeOK, InWindow, Queued, Moved
<1>5. /\ Items \in Seq(Value) /\ Len(Items) = Queued /\ Queued \in Nat
      /\ \A k \in 1 .. Queued : Items[k] = storage_[slot_(read_seq_ + Moved + k - 1)]
  BY <1>2, ItemsAreValues DEF ItemsQueued
<1>6. /\ Items' \in Seq(Value) /\ Len(Items') = Queued + 1
      /\ \A k \in 1 .. (Queued + 1) :
            Items'[k] = storage_[slot_(read_seq_ + Moved + k - 1)]
  <2>1. /\ Items' \in Seq(Value) /\ Len(Items') = Queued'
        /\ \A k \in 1 .. Queued' : Items'[k] = storage_'[slot_(read_seq_' + Moved' + k - 1)]
    BY <1>2, ItemsAreValuesNext DEF ItemsQueued
  <2>2. ASSUME NEW k \in 1 .. (Queued + 1)
        PROVE  Items'[k] = storage_[slot_(read_seq_ + Moved + k - 1)]
    <3>1. k \in 1 .. Queued' /\ read_seq_' + Moved' + k - 1 = read_seq_ + Moved + k - 1
      BY <1>1, <1>4
    <3> QED
      BY <1>1, <2>1, <3>1
  <2> QED
    BY <1>4, <2>1, <2>2
<1>7. /\ Append(Items, v) \in Seq(Value) /\ Len(Append(Items, v)) = Queued + 1
      /\ \A k \in 1 .. Queued : Append(Items, v)[k] = Items[k]
      /\ Append(Items, v)[Queued + 1] = v
  BY <1>3, <1>5, AppendProperties
<1>8. ASSUME NEW k \in 1 .. (Queued + 1)
      PROVE  Items'[k] = Append(Items, v)[k]
  <2>1. CASE k = Queued + 1
    BY <1>4, <1>6, <1>7, <2>1
  <2>2. CASE k \in 1 .. Queued
    BY <1>5, <1>6, <1>7, <2>2
  <2> QED
    BY <1>5, <2>1, <2>2
<1>9. Items' = Append(Items, v)
  BY <1>6, <1>7, <1>8, SeqEqual
<1> QED
  BY <1>1, <1>2, <1>3, <1>4, <1>5, <1>9

(* Moving out takes the oldest item. *)
LEMMA MoveGets ==
    ASSUME IInv, IInv', PopMove
    PROVE  /\ alive /\ Items # <<>> /\ taken' = Head(Items)
           /\ Items' = Tail(Items) /\ alive' = alive
<1>1. /\ cpc = "move" /\ cpc' = "publish" /\ taken' = storage_[slot_(read_seq_)]
      /\ storage_' = [storage_ EXCEPT ![slot_(read_seq_)] = Raw]
      /\ UNCHANGED <<write_seq_, read_seq_, alive>>
  BY DEF PopMove
<1>2. alive /\ alive' /\ read_seq_ \in Nat /\ write_seq_ \in Nat
  BY <1>1 DEF IInv, TypeOK, InCall
<1>3. Moved = 0 /\ Moved' = 1 /\ Queued' = Queued - 1 /\ Queued \in Nat /\ Queued >= 1
      /\ read_seq_ + Queued <= write_seq_
  BY <1>1 DEF IInv, TypeOK, InWindow, Queued, Moved
<1>4. /\ Items \in Seq(Value) /\ Len(Items) = Queued
      /\ \A k \in 1 .. Queued : Items[k] = storage_[slot_(read_seq_ + k - 1)]
  <2>1. /\ Items \in Seq(Value) /\ Len(Items) = Queued
        /\ \A k \in 1 .. Queued : Items[k] = storage_[slot_(read_seq_ + Moved + k - 1)]
    BY <1>2, ItemsAreValues DEF ItemsQueued
  <2>2. ASSUME NEW k \in 1 .. Queued
        PROVE  Items[k] = storage_[slot_(read_seq_ + k - 1)]
    <3>1. read_seq_ + Moved + k - 1 = read_seq_ + k - 1
      BY <1>2, <1>3
    <3> QED
      BY <2>1, <3>1
  <2> QED
    BY <2>1, <2>2
<1>5. /\ Items' \in Seq(Value) /\ Len(Items') = Queued - 1
      /\ \A k \in 1 .. (Queued - 1) : Items'[k] = storage_'[slot_(read_seq_ + (k + 1) - 1)]
  <2>1. /\ Items' \in Seq(Value) /\ Len(Items') = Queued'
        /\ \A k \in 1 .. Queued' : Items'[k] = storage_'[slot_(read_seq_' + Moved' + k - 1)]
    BY <1>2, ItemsAreValuesNext DEF ItemsQueued
  <2>2. ASSUME NEW k \in 1 .. (Queued - 1)
        PROVE  Items'[k] = storage_'[slot_(read_seq_ + (k + 1) - 1)]
    <3>1. k \in 1 .. Queued' /\ read_seq_' + Moved' + k - 1 = read_seq_ + (k + 1) - 1
      BY <1>1, <1>2, <1>3
    <3> QED
      BY <2>1, <3>1
  <2> QED
    BY <1>3, <2>1, <2>2
<1>6. ASSUME NEW k \in 1 .. (Queued - 1)
      PROVE  Items'[k] = Items[k + 1]
  <2> DEFINE n == read_seq_ + (k + 1) - 1
  <2>1. /\ n \in Nat /\ read_seq_ < n /\ n - read_seq_ < Capacity /\ k + 1 \in 1 .. Queued
    BY <1>2, <1>3, RingAssumption DEF IInv, TypeOK, InWindow, Queued, Moved
  <2>2. slot_(n) # slot_(read_seq_) /\ slot_(n) \in Slot
    BY <1>2, <2>1, SlotsApart, SlotOfCounter
  <2>3. storage_'[slot_(n)] = storage_[slot_(n)]
    BY <1>1, <2>2 DEF IInv, TypeOK
  <2> QED
    BY <1>4, <1>5, <2>1, <2>3
<1>7. Items # <<>>
  BY <1>3, <1>4, EmptySeq
<1>8. /\ Tail(Items) \in Seq(Value) /\ Len(Tail(Items)) = Queued - 1
      /\ \A k \in 1 .. (Queued - 1) : Tail(Items)[k] = Items[k + 1]
  BY <1>4, <1>7, HeadTailProperties
<1>9. Items' = Tail(Items)
  BY <1>5, <1>6, <1>8, SeqEqual
<1>10. taken' = Head(Items)
  <2>1. Head(Items) = Items[1] /\ read_seq_ + 1 - 1 = read_seq_
    BY <1>2, <1>4, <1>7
  <2> QED
    BY <1>1, <1>3, <1>4, <2>1
<1> QED
  BY <1>1, <1>2, <1>7, <1>9, <1>10

(* Every other step but the destructor's leaves the queue as it is. *)
LEMMA OthersStutter ==
    ASSUME IInv, IInv', [Next]_vars, ~PushPublish, ~PopMove, ~Destroy
    PROVE  Items' = Items /\ taken' = taken /\ alive' = alive
<1>1. ASSUME storage_' = storage_, alive' = alive, Queued' = Queued,
             read_seq_' + Moved' = read_seq_ + Moved
      PROVE  Items' = Items
  BY <1>1 DEF Items
<1>2. ASSUME NEW v \in Value, NEW op \in PushOps, PushCall(v, op)
      PROVE  Items' = Items /\ taken' = taken /\ alive' = alive
  BY <1>1, <1>2 DEF PushCall, consumer, Queued, Moved
<1>3. ASSUME NEW r \in r_seen .. read_seq_, PushLoad(r)
      PROVE  Items' = Items /\ taken' = taken /\ alive' = alive
  BY <1>1, <1>3 DEF PushLoad, consumer, Queued, Moved
<1>4. ASSUME PushConstruct
      PROVE  Items' = Items /\ taken' = taken /\ alive' = alive
  <2>1. /\ ppc = "construct" /\ storage_' = [storage_ EXCEPT ![slot_(write_seq_)] = item]
        /\ UNCHANGED <<write_seq_, read_seq_, cpc, taken, alive>>
    BY <1>4 DEF PushConstruct, consumer
  <2>2. alive /\ alive' /\ write_seq_ \in Nat /\ read_seq_ \in Nat
    BY <2>1 DEF IInv, TypeOK, InCall
  <2>3. Moved' = Moved /\ Moved \in {0, 1} /\ Queued' = Queued /\ Queued \in Nat
    BY <2>1, <2>2, ItemsAreValues DEF ItemsQueued, Queued, Moved
  <2>4. /\ Items \in Seq(Value) /\ Len(Items) = Queued
        /\ \A k \in 1 .. Queued : Items[k] = storage_[slot_(read_seq_ + Moved + k - 1)]
    BY <2>2, ItemsAreValues DEF ItemsQueued
  <2>5. /\ Items' \in Seq(Value) /\ Len(Items') = Queued'
        /\ \A k \in 1 .. Queued' : Items'[k] = storage_'[slot_(read_seq_' + Moved' + k - 1)]
    BY <2>2, ItemsAreValuesNext DEF ItemsQueued
  <2>6. ASSUME NEW k \in 1 .. Queued
        PROVE  Items'[k] = Items[k]
    <3> DEFINE n == read_seq_ + Moved + k - 1
    <3>1. n \in Nat /\ n < write_seq_ /\ write_seq_ - n < Capacity
      BY <2>1, <2>2, <2>3, RingAssumption DEF IInv, TypeOK, InWindow, Queued
    <3>2. slot_(n) # slot_(write_seq_) /\ slot_(n) \in Slot
      BY <2>2, <3>1, SlotsApart, SlotOfCounter
    <3>3. storage_'[slot_(n)] = storage_[slot_(n)]
      BY <2>1, <3>2 DEF IInv, TypeOK
    <3>4. k \in 1 .. Queued' /\ read_seq_' + Moved' + k - 1 = n
      BY <2>1, <2>3
    <3> QED
      BY <2>4, <2>5, <3>3, <3>4
  <2>7. Items' = Items
    BY <2>3, <2>4, <2>5, <2>6, SeqEqual
  <2> QED
    BY <2>1, <2>7
<1>5. ASSUME NEW op \in PopOps, PopCall(op)
      PROVE  Items' = Items /\ taken' = taken /\ alive' = alive
  BY <1>1, <1>5 DEF PopCall, producer, Queued, Moved
<1>6. ASSUME NEW w \in w_seen .. write_seq_, PopLoad(w)
      PROVE  Items' = Items /\ taken' = taken /\ alive' = alive
  <2>1. cpc' # "publish" /\ cpc # "publish"
    <3>1. ccall \in {"try_pop", "pop"}
      BY <1>6, RingAssumption DEF PopLoad, IInv, InCall
    <3> QED
      BY <1>6, <3>1 DEF PopLoad
  <2> QED
    BY <1>1, <1>6, <2>1 DEF PopLoad, producer, Queued, Moved
<1>7. ASSUME PopPublish
      PROVE  Items' = Items /\ taken' = taken /\ alive' = alive
  <2>1. /\ cpc = "publish" /\ cpc' = "idle" /\ read_seq_' = read_seq_ + 1
        /\ UNCHANGED <<write_seq_, storage_, taken, alive>>
    BY <1>7 DEF PopPublish, producer
  <2>2. Queued' = Queued /\ read_seq_' + Moved' = read_seq_ + Moved
    BY <2>1 DEF IInv, TypeOK, Queued, Moved
  <2> QED
    BY <1>1, <2>1, <2>2
<1>8. ASSUME UNCHANGED vars
      PROVE  Items' = Items /\ taken' = taken /\ alive' = alive
  BY <1>1, <1>8 DEF vars, producer, consumer, Queued, Moved
<1> QED
  BY <1>2, <1>3, <1>4, <1>5, <1>6, <1>7, <1>8 DEF Next

(* With any stale loads, on either side of a wrap of the counters, the     *)
(* buffer behaves as a queue of at most Capacity items, first in first     *)
(* out, until it is destroyed.                                             *)
THEOREM BufferIsFifo == Spec => ImplementsFifo
<1> USE DEF Queue!vars, Items, Queued
<1>1. Init => Queue!Init
  <2> SUFFICES ASSUME Init PROVE Queue!Init
    OBVIOUS
  <2>1. Items = <<>>
    BY DEF Init, Moved
  <2> QED
    BY <2>1, RingAssumption DEF Init, Queue!Init
<1>2. IInv /\ IInv' /\ [Next]_vars => [Queue!Next]_(Queue!vars)
  <2> SUFFICES ASSUME IInv, IInv', [Next]_vars
               PROVE  [Queue!Next]_(Queue!vars)
    OBVIOUS
  <2>1. CASE PushPublish
    BY <2>1, PublishPuts DEF Queue!Next, Queue!Put
  <2>2. CASE PopMove
    BY <2>2, MoveGets DEF Queue!Next, Queue!Get
  <2>3. CASE Destroy
    BY <2>3 DEF Destroy, producer, consumer, Queue!Next, Queue!Dispose
  <2>4. CASE ~PushPublish /\ ~PopMove /\ ~Destroy
    BY <2>4, OthersStutter
  <2> QED
    BY <2>1, <2>2, <2>3, <2>4
<1> QED
  BY <1>1, <1>2, RingInvariance, PTL DEF Spec, ImplementsFifo, Queue!Spec
=============================================================================
