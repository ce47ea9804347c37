---------------------------- MODULE AbstractLock ----------------------------
(***************************************************************************)
(* What base::Lock promises its callers: each lock has at most one holder, *)
(* a thread becomes the holder only of a lock nobody holds, only the       *)
(* holder gives it up, and a check fails only for a reason the caller      *)
(* knows: too many tracked locks, a lock released by a thread that is not  *)
(* the holder, a lock acquired by the thread that is.                      *)
(***************************************************************************)
CONSTANTS Threads, Locks, NoThread, Misuse

VARIABLES holder, crash

vars == <<holder, crash>>

Init ==
  /\ holder = [l \in Locks |-> NoThread]
  /\ crash = "none"

Take(t, l) ==
  /\ holder[l] = NoThread
  /\ holder' = [holder EXCEPT ![l] = t]
  /\ UNCHANGED crash

Give(t, l) ==
  /\ holder[l] = t
  /\ holder' = [holder EXCEPT ![l] = NoThread]
  /\ UNCHANGED crash

Fail(why) ==
  /\ crash = "none"
  /\ crash' = why
  /\ UNCHANGED holder

TooManyTracked == Fail("capacity")

ForeignRelease(t, l) ==
  "foreign_release" \in Misuse /\ holder[l] # t /\ Fail("not_owner")

Reacquire(t, l) ==
  "reacquire" \in Misuse /\ holder[l] = t /\ Fail("EDEADLK")

Next ==
  \/ \E t \in Threads, l \in Locks :
       Take(t, l) \/ Give(t, l) \/ ForeignRelease(t, l) \/ Reacquire(t, l)
  \/ TooManyTracked

Spec == Init /\ [][Next]_vars
=============================================================================
