----------------------------- MODULE RingBuffer -----------------------------
(***************************************************************************)
(* SPSCRingBuffer (engine/include/ring_buffer.hpp): one producer and one   *)
(* consumer thread, two atomic counters, no lock.  Each call is cut at     *)
(* every access to shared memory.  An acquire load may return any value    *)
(* from the newest one its thread has seen up to the current one; what was *)
(* written before the matching release store is then visible.              *)
(* The counters below never wrap; the code sees them through Seen, at the  *)
(* width of size_t.                                                        *)
(***************************************************************************)
EXTENDS Integers, Sequences

CONSTANTS
    Value,       \* the items pushed
    Capacity,    \* the template parameter
    SeqMod,      \* 2^w for the width w of size_t
    MaxPush,     \* bound: number of items pushed
    PushOps,     \* subset of {"try_push", "push"}
    PopOps,      \* subset of {"try_pop", "pop"}
    Raw          \* the content of a slot that holds no object

ASSUME RingAssumption ==
    /\ Capacity \in Nat \ {0}
    /\ SeqMod \in Nat /\ SeqMod > Capacity /\ SeqMod % Capacity = 0
    /\ MaxPush \in Nat
    /\ PushOps \subseteq {"try_push", "push"}
    /\ PopOps \subseteq {"try_pop", "pop"}
    /\ Raw \notin Value

VARIABLES
    write_seq_,   \* items published by the producer
    read_seq_,    \* slots given back by the consumer
    storage_,     \* [slot -> Value or Raw]
    ppc, pcall,   \* the producer's place, and the call it is in
    item,         \* the value it pushes
    r_seen,       \* the newest read_seq_ it has loaded
    cpc, ccall,   \* the consumer's place, and the call it is in
    w_seen,       \* the newest write_seq_ it has loaded
    taken,        \* the value it popped last
    alive         \* the destructor has not run

producer == <<ppc, pcall, item, r_seen>>
consumer == <<cpc, ccall, w_seen, taken>>
vars == <<write_seq_, read_seq_, storage_, producer, consumer, alive>>

Slot == 0 .. (Capacity - 1)
Seen(n) == n % SeqMod                    \* a counter as size_t holds it
slot_(n) == Seen(n) % Capacity           \* slot_(seq): seq & mask_

Init ==
    /\ write_seq_ = 0
    /\ read_seq_ = 0
    /\ storage_ = [k \in Slot |-> Raw]
    /\ ppc = "idle" /\ pcall = "none" /\ item = Raw /\ r_seen = 0
    /\ cpc = "idle" /\ ccall = "none" /\ w_seen = 0 /\ taken = Raw
    /\ alive = TRUE

-----------------------------------------------------------------------------
(* The tests of the four calls *)

NoRoomStrict(w, r) == (Seen(w) - Seen(r)) % SeqMod > Capacity   \* fault: > for >=
NoRoomEver(w, r) == Seen(w) >= Capacity                      \* fault: r is ignored
NoRoom(w, r) == (Seen(w) - Seen(r)) % SeqMod >= Capacity     \* w - r >= Capacity

NothingNever(op, r, w) == FALSE                              \* fault: no test
NothingButOne(op, r, w) == Seen(w) \in {Seen(r), Seen(r + 1)}  \* fault: off by one

(* try_pop gives up when r == w; pop goes on when r < w *)
Nothing(op, r, w) ==
    IF op = "try_pop" THEN Seen(r) = Seen(w) ELSE ~(Seen(r) < Seen(w))

-----------------------------------------------------------------------------
(* The producer: try_push, push *)

PushCall(v, op) ==
    /\ alive
    /\ ppc = "idle"
    /\ write_seq_ < MaxPush
    /\ ppc' = "load"
    /\ pcall' = op
    /\ item' = v
    /\ UNCHANGED <<write_seq_, read_seq_, storage_, r_seen, consumer, alive>>

(* Both loads and the test.  A full buffer makes try_push return false and *)
(* push go round again.                                                    *)
PushLoad(r) ==
    /\ ppc = "load"
    /\ r_seen' = r
    /\ ppc' = CASE ~NoRoom(write_seq_, r) -> "construct"
                [] NoRoom(write_seq_, r) /\ pcall = "try_push" -> "idle"
                [] NoRoom(write_seq_, r) /\ pcall = "push" -> "load"
    /\ UNCHANGED <<write_seq_, read_seq_, storage_, pcall, item, consumer, alive>>

PushConstruct ==
    /\ ppc = "construct"
    /\ storage_' = [storage_ EXCEPT ![slot_(write_seq_)] = item]
    /\ ppc' = "publish"
    /\ UNCHANGED <<write_seq_, read_seq_, pcall, item, r_seen, consumer, alive>>

PushPublish ==
    /\ ppc = "publish"
    /\ write_seq_' = write_seq_ + 1
    /\ ppc' = "idle"
    /\ UNCHANGED <<read_seq_, storage_, pcall, item, r_seen, consumer, alive>>

-----------------------------------------------------------------------------
(* The consumer: try_pop, pop *)

PopCall(op) ==
    /\ alive
    /\ cpc = "idle"
    /\ cpc' = "load"
    /\ ccall' = op
    /\ UNCHANGED <<write_seq_, read_seq_, storage_, w_seen, taken, producer, alive>>

PopLoad(w) ==
    /\ cpc = "load"
    /\ w_seen' = w
    /\ cpc' = CASE ~Nothing(ccall, read_seq_, w) -> "move"
                [] Nothing(ccall, read_seq_, w) /\ ccall = "try_pop" -> "idle"
                [] Nothing(ccall, read_seq_, w) /\ ccall = "pop" -> "load"
    /\ UNCHANGED <<write_seq_, read_seq_, storage_, ccall, taken, producer, alive>>

PopMoveNewest ==                                             \* fault: last in, first out
    /\ cpc = "move"
    /\ taken' = storage_[slot_(w_seen - 1)]
    /\ storage_' = [storage_ EXCEPT ![slot_(read_seq_)] = Raw]
    /\ cpc' = "publish"
    /\ UNCHANGED <<write_seq_, read_seq_, ccall, w_seen, producer, alive>>

(* item = std::move( *p); p->~T() *)
PopMove ==
    /\ cpc = "move"
    /\ taken' = storage_[slot_(read_seq_)]
    /\ storage_' = [storage_ EXCEPT ![slot_(read_seq_)] = Raw]
    /\ cpc' = "publish"
    /\ UNCHANGED <<write_seq_, read_seq_, ccall, w_seen, producer, alive>>

PopPublish ==
    /\ cpc = "publish"
    /\ read_seq_' = read_seq_ + 1
    /\ cpc' = "idle"
    /\ UNCHANGED <<write_seq_, storage_, ccall, w_seen, taken, producer, alive>>

-----------------------------------------------------------------------------
(* The destructor runs when both threads are done with the buffer: it      *)
(* destroys the objects from read_seq_ up to write_seq_ while r < w.       *)
LeftButLast == read_seq_ .. (write_seq_ - 2)                 \* fault: off by one
Left == {n \in read_seq_ .. (write_seq_ - 1) : Seen(read_seq_) < Seen(write_seq_)}

Destroy ==
    /\ alive
    /\ ppc = "idle" /\ cpc = "idle"
    /\ alive' = FALSE
    /\ storage_' = [k \in Slot |-> IF \E n \in Left : slot_(n) = k THEN Raw ELSE storage_[k]]
    /\ UNCHANGED <<write_seq_, read_seq_, producer, consumer>>

Next ==
    \/ \E v \in Value, op \in PushOps : PushCall(v, op)
    \/ \E r \in r_seen .. read_seq_ : PushLoad(r)
    \/ PushConstruct
    \/ PushPublish
    \/ \E op \in PopOps : PopCall(op)
    \/ \E w \in w_seen .. write_seq_ : PopLoad(w)
    \/ PopMove
    \/ PopPublish
    \/ Destroy

Spec == Init /\ [][Next]_vars

(* Both threads run.  A store becomes visible in finite time: a thread     *)
(* that loads again and again does not get stale values for ever (SF).     *)
(* The consumer thread keeps calling, as the benchmark's loop does.        *)
FairSpec ==
    /\ Spec
    /\ SF_vars(PushLoad(read_seq_)) /\ WF_vars(PushConstruct \/ PushPublish)
    /\ SF_vars(PopLoad(write_seq_)) /\ WF_vars(PopMove \/ PopPublish)
    /\ WF_vars(\E op \in PopOps : PopCall(op))

-----------------------------------------------------------------------------
TypeOK ==
    /\ write_seq_ \in 0 .. MaxPush
    /\ read_seq_ \in 0 .. MaxPush
    /\ storage_ \in [Slot -> Value \cup {Raw}]
    /\ ppc \in {"idle", "load", "construct", "publish"}
    /\ pcall \in PushOps \cup {"none"}
    /\ item \in Value \cup {Raw}
    /\ r_seen \in 0 .. MaxPush
    /\ cpc \in {"idle", "load", "move", "publish"}
    /\ ccall \in PopOps \cup {"none"}
    /\ w_seen \in 0 .. MaxPush
    /\ taken \in Value \cup {Raw}
    /\ alive \in BOOLEAN

(* The sequence numbers whose slots hold an object: published and not yet  *)
(* moved out, and the one constructed but not yet published.               *)
Holding ==
    LET first == IF cpc = "publish" THEN read_seq_ + 1 ELSE read_seq_
        last  == IF ppc = "publish" THEN write_seq_ ELSE write_seq_ - 1
    IN  first .. last

(* write_seq_ has wrapped and read_seq_ has not, so `<' misleads *)
Straddling == Seen(write_seq_) < Seen(read_seq_)

(* No object is overwritten, moved from twice or lost: at every moment the *)
(* slots that hold an object are exactly those of the numbers in Holding,  *)
(* one slot each; and the destructor leaves none behind, unless the        *)
(* counters straddle the end of their range.                               *)
SlotsHoldExactly ==
    /\ alive =>
        /\ \A m, n \in Holding : m # n => slot_(m) # slot_(n)
        /\ \A k \in Slot : storage_[k] # Raw <=> \E n \in Holding : slot_(n) = k
    /\ ~alive /\ ~Straddling => \A k \in Slot : storage_[k] = Raw

(* The two threads never work on one slot at the same time: where the      *)
(* producer constructs, the consumer is not moving out.                    *)
NoSharedSlot ==
    ppc = "construct" /\ cpc = "move" => slot_(write_seq_) # slot_(read_seq_)

(* Every item pushed is popped, unless the buffer is destroyed first, or   *)
(* the consumer calls pop, and not try_pop, while the counters straddle    *)
(* the end of their range.                                                 *)
Delivered ==
    \A n \in 1 .. MaxPush : (write_seq_ >= n) ~>
        (read_seq_ >= n \/ ~alive \/ (cpc = "load" /\ ccall = "pop" /\ Straddling))

(* push waits for room and gets it, with the same exception. *)
PushReturns ==
    ppc # "idle" ~> ppc = "idle" \/ (cpc = "load" /\ ccall = "pop" /\ Straddling)

(* The buffer is a bounded FIFO queue: an item enters when its counter is  *)
(* published and leaves when it is moved out.                              *)
Moved == IF cpc = "publish" THEN 1 ELSE 0
Queue == INSTANCE Fifo WITH
    items <- IF alive
               THEN [k \in 1 .. (write_seq_ - read_seq_ - Moved) |->
                        storage_[slot_(read_seq_ + Moved + k - 1)]]
               ELSE <<>>,
    out   <- taken
ImplementsFifo == Queue!Spec
=============================================================================
