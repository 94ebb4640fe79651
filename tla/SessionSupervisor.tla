-------------------------- MODULE SessionSupervisor --------------------------
(***************************************************************************)
(* What the supervision of multi-device sessions promises, without jobs,   *)
(* workers, callbacks or clocks: a host has at most one session; whatever  *)
(* starts a new attempt behind the user's back is paid for, by one of the  *)
(* retries a user's request grants or by the one capability re-learning;   *)
(* only a connection that has proved stable earns the retries back; and a  *)
(* session that has spent them stays failed until the user asks again.     *)
(***************************************************************************)
EXTENDS Integers

CONSTANTS Slot, Host, NoHost, MaxRetries

VARIABLES
    phase,      \* "idle", "CONNECTING", "CONNECTED" or "ERROR"
    peer,       \* the host of the session of a slot
    left,       \* retries the session may still spend
    spare,      \* TRUE until the session has re-learned its host
    stable,     \* TRUE once a connection has lasted long enough
    attempt     \* grows with every attempt, 0 without a session

vars == <<phase, peer, left, spare, stable, attempt>>

Init ==
    /\ phase = [s \in Slot |-> "idle"]
    /\ peer = [s \in Slot |-> NoHost]
    /\ left = [s \in Slot |-> 0]
    /\ spare = [s \in Slot |-> FALSE]
    /\ stable = [s \in Slot |-> FALSE]
    /\ attempt = [s \in Slot |-> 0]

\* The session at s goes on with these values and no other slot changes.
Becomes(s, p, l, sp, st) ==
    /\ phase' = [phase EXCEPT ![s] = p]
    /\ left' = [left EXCEPT ![s] = l]
    /\ spare' = [spare EXCEPT ![s] = sp]
    /\ stable' = [stable EXCEPT ![s] = st]

NewAttempt(s) ==
    /\ attempt'[s] > attempt[s]
    /\ \A t \in Slot \ {s} : attempt'[t] = attempt[t]

\* What a session may spend when its attempt fails.
Budget(s) == IF stable[s] THEN MaxRetries ELSE left[s]

Trying(s) == phase[s] \in {"CONNECTING", "CONNECTED"}

Begin(s, h) ==
    /\ phase[s] = "idle"
    /\ \A t \in Slot : peer[t] # h
    /\ peer' = [peer EXCEPT ![s] = h]
    /\ Becomes(s, "CONNECTING", MaxRetries, TRUE, FALSE)
    /\ NewAttempt(s)

Again(s) ==
    /\ phase[s] = "ERROR"
    /\ Becomes(s, "CONNECTING", MaxRetries, TRUE, FALSE)
    /\ NewAttempt(s)
    /\ UNCHANGED peer

Up(s) ==
    /\ phase[s] = "CONNECTING"
    /\ Becomes(s, "CONNECTED", left[s], spare[s], FALSE)
    /\ UNCHANGED <<peer, attempt>>

Prove(s) ==
    /\ phase[s] = "CONNECTED"
    /\ Becomes(s, "CONNECTED", left[s], spare[s], TRUE)
    /\ UNCHANGED <<peer, attempt>>

Retry(s) ==
    /\ Trying(s)
    /\ Budget(s) > 0
    /\ Becomes(s, "CONNECTING", Budget(s) - 1, spare[s], FALSE)
    /\ NewAttempt(s)
    /\ UNCHANGED peer

Relearn(s) ==
    /\ phase[s] = "CONNECTING"
    /\ spare[s]
    /\ Becomes(s, "CONNECTING", left[s], FALSE, FALSE)
    /\ NewAttempt(s)
    /\ UNCHANGED peer

GiveUp(s) ==
    /\ Trying(s)
    /\ Budget(s) = 0
    /\ Becomes(s, "ERROR", 0, spare[s], FALSE)
    /\ NewAttempt(s)
    /\ UNCHANGED peer

\* Any number of sessions may be dropped at once.
Drop(S) ==
    /\ phase' = [s \in Slot |-> IF s \in S THEN "idle" ELSE phase[s]]
    /\ peer' = [s \in Slot |-> IF s \in S THEN NoHost ELSE peer[s]]
    /\ left' = [s \in Slot |-> IF s \in S THEN 0 ELSE left[s]]
    /\ spare' = [s \in Slot |-> IF s \in S THEN FALSE ELSE spare[s]]
    /\ stable' = [s \in Slot |-> IF s \in S THEN FALSE ELSE stable[s]]
    /\ attempt' = [s \in Slot |-> IF s \in S THEN 0 ELSE attempt[s]]

Next ==
    \/ \E s \in Slot, h \in Host : Begin(s, h)
    \/ \E s \in Slot : \/ Again(s) \/ Up(s) \/ Prove(s)
                       \/ Retry(s) \/ Relearn(s) \/ GiveUp(s)
    \/ \E S \in SUBSET Slot : Drop(S)

Spec == Init /\ [][Next]_vars

=============================================================================
