--------------------------- MODULE OutboundQueue ---------------------------
(***************************************************************************)
(* What one host connection promises to the threads that send over it: a   *)
(* queue emptied by a single worker.  Accepted messages wait in `pending`, *)
(* the worker takes them one at a time from the front and each one it took *)
(* is either delivered or dropped.  An urgent message is put in front of   *)
(* everything that waits; the others leave in the order they were          *)
(* accepted.  When the worker has retired the rest may be discarded.       *)
(*                                                                         *)
(* There is no condition variable, no flag and no stop request here: that  *)
(* the worker never sleeps while something waits is the fairness of Take.  *)
(* MessageDispatcher implements this module.                               *)
(***************************************************************************)
EXTENDS Naturals, Sequences

CONSTANTS Msgs,      \* the messages that may be sent over the connection
          Urgent,    \* those sent with the urgent flag
          None       \* "no message"

VARIABLES pending,   \* messages waiting for the worker, front first
          taken,     \* the message the worker handles, or None
          delivered, \* history: the messages delivered, in order
          worker     \* "on" until the worker retires

oqVars == <<pending, taken, delivered, worker>>

OQInit == /\ pending = <<>>
          /\ taken = None
          /\ delivered = <<>>
          /\ worker = "on"

(* A thread hands over m.  Urgent messages overtake.                       *)
Accept(m) == /\ pending' = IF m \in Urgent THEN <<m>> \o pending
                                           ELSE Append(pending, m)
             /\ UNCHANGED <<taken, delivered, worker>>

(* The worker takes the front message.                                     *)
Take == /\ worker = "on"
        /\ taken = None
        /\ pending # <<>>
        /\ taken' = Head(pending)
        /\ pending' = Tail(pending)
        /\ UNCHANGED <<delivered, worker>>

(* The message taken reaches the host, or is given up.                     *)
Finish == /\ taken # None
          /\ delivered' \in {Append(delivered, taken), delivered}
          /\ taken' = None
          /\ UNCHANGED <<pending, worker>>

Retire == /\ worker = "on"
          /\ taken = None
          /\ worker' = "off"
          /\ UNCHANGED <<pending, taken, delivered>>

Discard == /\ worker = "off"
           /\ pending' = <<>>
           /\ UNCHANGED <<taken, delivered, worker>>

OQNext == \/ \E m \in Msgs : Accept(m)
          \/ Take
          \/ Finish
          \/ Retire
          \/ Discard

OQSafe == OQInit /\ [][OQNext]_oqVars

(* The worker never idles while a message waits, and it finishes what it   *)
(* took.                                                                   *)
OQSpec == OQSafe /\ WF_oqVars(Take) /\ WF_oqVars(Finish)
=============================================================================
