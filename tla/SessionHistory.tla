--------------------------- MODULE SessionHistory ---------------------------
(***************************************************************************)
(* Session with one history variable: which requests came in with an access *)
(* token of a session that POST /session/revoke had already been answered   *)
(* for.                                                                     *)
(***************************************************************************)
EXTENDS Session

VARIABLE late       \* the requests that came too late

RevokedByDevice(s) ==
  \E q \in Request : kind(q) = "revoke" /\ pc[q] = "done" /\ target(q) = s

InitH == Init /\ late = {}

NextH ==
  /\ Next
  /\ late' = late \union
       {r \in Request : /\ pc[r] = "arriving" /\ pc'[r] = "getKey"
                        /\ RevokedByDevice(op'[r].session)}

SpecH == InitH /\ [][NextH]_<<vars, late>>

(* "Any in-flight request using this session's access token will miss the   *)
(* cache and fall through to PG, where it will find is_revoked=true"        *)
(* (session.controller.ts, postRevokeSession), and so will all later ones:  *)
(* a request that comes in after the revocation was answered is refused.    *)
RevokedIsRefused == \A r \in late : pc[r] # "accepted"
=============================================================================
