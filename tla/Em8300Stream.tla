----------------------------- MODULE Em8300Stream -----------------------------
(***************************************************************************)
(* What a bus-master FIFO of the driver promises its users, with no ring,   *)
(* no register and no interrupt: a bounded queue of chunks.  One write()    *)
(* call at a time owns the queue; it appends its chunks in the order of     *)
(* the user's buffer; the card takes them in the same order, each once;     *)
(* and the value the call returns tells what it appended.                   *)
(*                                                                          *)
(* Em8300Fifo implements this module (see the property ImplementsStream     *)
(* there).                                                                  *)
(***************************************************************************)
EXTENDS Integers, Sequences

CONSTANTS
  Writers,    \* the processes that call write()
  Capacity,   \* how many chunks the queue holds
  Holes,      \* the chunks whose data cannot all be read at the caller's
  NoOne       \* the owner of an unowned queue

\* The error numbers a write can return.
EINTR == -4
EFAULT == -14
ERESTARTSYS == -512

VARIABLES
  queue,      \* the chunks appended and not yet taken by the card
  owner,      \* the writer whose call owns the queue
  call,       \* call[w]: how many calls w has made
  appended,   \* appended[w]: chunks of w's present call appended so far
  result      \* result[w]: what w's last finished call returned

vars == <<queue, owner, call, appended, result>>

\* The k-th chunk of the c-th call of w; it takes its place in the queue whether
\* or not all its data could be read.
Chunk(w, c, k) == <<w, c, k, <<w, c, k>> \notin Holes>>

Init ==
  /\ queue = <<>>
  /\ owner = NoOne
  /\ call = [w \in Writers |-> 0]
  /\ appended = [w \in Writers |-> 0]
  /\ result = [w \in Writers |-> 0]

\* The application calls write().
Enter(w) ==
  /\ owner # w
  /\ call' = [call EXCEPT ![w] = @ + 1]
  /\ appended' = [appended EXCEPT ![w] = 0]
  /\ UNCHANGED <<queue, owner, result>>

Own(w) ==
  /\ owner = NoOne
  /\ owner' = w
  /\ UNCHANGED <<queue, call, appended, result>>

\* The next n chunks of the owner's buffer appear together.
AppendNext(w, n) ==
  /\ owner = w
  /\ n \in 1 .. Capacity - Len(queue)
  /\ queue' = queue \o [k \in 1 .. n |-> Chunk(w, call[w], appended[w] + k)]
  /\ appended' = [appended EXCEPT ![w] = @ + n]
  /\ UNCHANGED <<owner, call, result>>

\* What a call that appended n chunks may return: their number, or, when
\* there are none, that it was interrupted.  A refused user buffer is reported
\* whatever was appended before it was met.
MayReturn(n) == {n, EFAULT} \cup IF n = 0 THEN {EINTR, ERESTARTSYS} ELSE {}

Leave(w) ==
  /\ owner = w
  /\ owner' = NoOne
  /\ \E r \in MayReturn(appended[w]) : result' = [result EXCEPT ![w] = r]
  /\ UNCHANGED <<queue, call, appended>>

\* The card takes the oldest chunk.
Take ==
  /\ queue # <<>>
  /\ queue' = Tail(queue)
  /\ UNCHANGED <<owner, call, appended, result>>

Next ==
  \/ \E w \in Writers : Enter(w) \/ Own(w) \/ Leave(w)
  \/ \E w \in Writers : \E n \in 1 .. Capacity : AppendNext(w, n)
  \/ Take

Spec == Init /\ [][Next]_vars
===============================================================================
