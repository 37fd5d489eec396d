---------------------------- MODULE UserHandler ----------------------------
(***************************************************************************)
(* internal/api/handler/user.go behind middleware.RequireSession. Me and   *)
(* ListCredentials only read; DeleteCredential is the handler that writes. *)
(***************************************************************************)
EXTENDS HandlerState

\* RequireSession resolves the cookie; the session may be gone right after.
DeleteCredential(r, t, c) ==
    /\ At(r, "idle")
    /\ sessions[t].status = "stored"
    /\ req' = [req EXCEPT ![r] =
           [Idle EXCEPT !.pc = "del_list", !.user = sessions[t].user, !.row = c]]
    /\ UNCHANGED <<postgres, redis>>

\* The delete that skips the ownership check.
DeleteCredentialUnchecked(r) ==
    /\ At(r, "del_list")
    /\ SoftDeleteBegin(r, req[r].row)
    /\ Goto(r, "del_soft")
    /\ UNCHANGED <<users, redis>>

\* ListByUserID names the credential: on to SoftDelete.
DeleteCredentialOwned(r) ==
    /\ At(r, "del_list")
    /\ req[r].row \in LiveOf(req[r].user)
    /\ SoftDeleteBegin(r, req[r].row)
    /\ Goto(r, "del_soft")
    /\ UNCHANGED <<users, redis>>

\* 404.
DeleteCredentialNotOwned(r) ==
    /\ At(r, "del_list")
    /\ req[r].row \notin LiveOf(req[r].user)
    /\ Respond(r)
    /\ UNCHANGED <<postgres, redis>>

DeleteCredentialStep(r) ==
    /\ At(r, "del_soft")
    /\ SoftDeleteGoOn(r)
    /\ UNCHANGED <<users, redis, req>>

\* 204, 404 or 409, by what SoftDelete returned.
DeleteCredentialEnd(r) ==
    /\ At(r, "del_soft")
    /\ SoftDeleteEnd(r)
    /\ Respond(r)
    /\ UNCHANGED <<users, redis>>
=============================================================================
