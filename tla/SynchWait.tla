------------------------------- MODULE SynchWait -------------------------------
(***************************************************************************)
(* struct synch_wait of include/synch_wait.h: how a thread of the stack    *)
(* sleeps until another thread notifies it.                                *)
(*                                                                         *)
(* A wait is a record with the mutex, the flags `notified' and `sleep',    *)
(* and the threads inside pthread_cond_wait: those still waiting, and      *)
(* those that were signalled and must take the mutex again.  Nothing in    *)
(* the stack calls wait_exit, so the flag `dead' stays 0 and is left out.  *)
(***************************************************************************)

Nobody == "nobody"

(* wait_init *)
FreshWait == [lock     |-> Nobody,
              notified |-> FALSE,
              sleep    |-> FALSE,
              waiting  |-> {},
              woken    |-> {}]

Waits(Thread) == [lock     : Thread \cup {Nobody},
                  notified : BOOLEAN,
                  sleep    : BOOLEAN,
                  waiting  : SUBSET Thread,
                  woken    : SUBSET Thread]

(* sleep_on, up to the point where thread t blocks in pthread_cond_wait.   *)
(* With a notification pending it does not block, but holds the mutex.     *)
CanSleep(w) == w.lock = Nobody
Slept_IgnoresNotified(w, t) ==
  [w EXCEPT !.sleep = TRUE, !.waiting = @ \cup {t}]
Slept(w, t) ==
  IF w.notified
  THEN [w EXCEPT !.sleep = TRUE, !.lock = t]
  ELSE [w EXCEPT !.sleep = TRUE, !.waiting = @ \cup {t}]

(* The rest of sleep_on: both flags are cleared, the mutex is released.    *)
CanReturn(w, t) == w.lock = t \/ (w.lock = Nobody /\ t \in w.woken)
Returned(w, t) ==
  [w EXCEPT !.notified = FALSE, !.sleep = FALSE, !.lock = Nobody,
            !.woken = @ \ {t}]

(* pthread_cond_wait may return although nobody signalled.                 *)
Spurious(w, t) == [w EXCEPT !.waiting = @ \ {t}, !.woken = @ \cup {t}]

(* wake_up: the set of waits it can leave behind, one for each thread that *)
(* pthread_cond_signal may choose.                                         *)
CanWake(w) == w.lock = Nobody
Woken_NoSignal(w) == {[w EXCEPT !.notified = TRUE]}
Woken(w) ==
  IF w.notified THEN {w}
  ELSE LET v == [w EXCEPT !.notified = TRUE]
       IN  IF w.sleep /\ w.waiting # {}
           THEN { Spurious(v, t) : t \in w.waiting }
           ELSE {v}

(* Thread t is inside sleep_on.                                            *)
InSleepOn(w, t) == w.lock = t \/ t \in w.waiting \cup w.woken
===============================================================================
