------------------------------- MODULE RpcCalls -------------------------------
(***************************************************************************)
(* What a client promises to those who use it, without sequence numbers,   *)
(* locks, channels or goroutines: a call is made, ends once, and its       *)
(* outcome has a cause.                                                    *)
(***************************************************************************)
CONSTANTS Calls, GoCalls   \* calls with and without a context

Callers == Calls \cup GoCalls

VARIABLES
  phase,    \* phase[t]: "idle", "active" or "returned"
  outcome,  \* outcome[t]: what the caller was told
  decoded,  \* calls whose reply has been filled in
  expired,  \* calls whose context has ended
  closing,  \* Close has been called
  ended     \* the connection is gone

vars == <<phase, outcome, decoded, expired, closing, ended>>

Init ==
  /\ phase = [t \in Callers |-> "idle"] /\ outcome = [t \in Callers |-> "none"]
  /\ decoded = {} /\ expired = {} /\ closing = FALSE /\ ended = FALSE

(* The documented results: nil, ErrShutdown, ctx.Err() and other errors.   *)
Cause(t, r) ==
  CASE r = "nil" -> t \in decoded
    [] r = "ErrShutdown" -> closing \/ ended
    [] r = "ctx" -> t \in expired
    [] OTHER -> TRUE
Outcomes == {"nil", "ErrShutdown", "ctx", "error"}

Invoke(t) ==
  /\ phase[t] = "idle"
  /\ phase' = [phase EXCEPT ![t] = "active"]
  /\ UNCHANGED <<outcome, decoded, expired, closing, ended>>

(* A reply is filled in once, and while the connection is there; the       *)
(* caller may have given up by then.                                       *)
Decode(t) ==
  /\ phase[t] # "idle" /\ t \notin decoded /\ ~ended
  /\ decoded' = decoded \cup {t}
  /\ UNCHANGED <<phase, outcome, expired, closing, ended>>

Return(t, r) ==
  /\ phase[t] = "active" /\ Cause(t, r)
  /\ phase' = [phase EXCEPT ![t] = "returned"]
  /\ outcome' = [outcome EXCEPT ![t] = r]
  /\ UNCHANGED <<decoded, expired, closing, ended>>

Expire(t) ==
  /\ t \in Calls \ expired
  /\ expired' = expired \cup {t}
  /\ UNCHANGED <<phase, outcome, decoded, closing, ended>>

Close ==
  /\ ~closing /\ closing' = TRUE
  /\ UNCHANGED <<phase, outcome, decoded, expired, ended>>

End ==
  /\ ~ended /\ ended' = TRUE
  /\ UNCHANGED <<phase, outcome, decoded, expired, closing>>

Next ==
  \/ \E t \in Callers : \/ Invoke(t) \/ Decode(t) \/ Expire(t)
                        \/ \E r \in Outcomes : Return(t, r)
  \/ Close \/ End

Spec == Init /\ [][Next]_vars
=============================================================================
