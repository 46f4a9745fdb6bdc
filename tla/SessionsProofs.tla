--------------------------- MODULE SessionsProofs ---------------------------
(***************************************************************************)
(* That the sessions of an account are what the user sees and what the     *)
(* password is worth, for any number of sessions, requests, tokens and     *)
(* password changes.                                                       *)
(*                                                                         *)
(* The invariant says what a request may still rely on in a later          *)
(* statement: that its keys were made, that the session it has dropped     *)
(* stays dropped, that it knows the version its session was opened with,   *)
(* and that the token it has locked is still fresh.                        *)
(***************************************************************************)
EXTENDS Sessions, TLAPS

----------------------------------------------------------------------------

Listing  == {"sync", "cleanup", "find", "mark", "drop", "audit"}
WithKey  == Listing \cup {"leave", "flush", "change", "track", "save"}
Revokes  == {"find", "mark", "drop", "audit"}

(* The keys of records and of requests are those of sessions that were made. *)
KeysWereMade ==
    /\ \A k \in Keys : record[k] # "none" => row[k] # "unused"
    /\ \A r \in Requests :
         /\ req[r].key \in Keys => row[req[r].key] # "unused"
         /\ req[r].step \in WithKey => req[r].key \in Keys
         /\ req[r].step \in Listing => req[r].target \in Keys
         /\ req[r].step \in Revokes \ {"find"} => row[req[r].target] # "unused"
         /\ req[r].step \in Listing => req[r].op \in {"list", "revoke"}

(* A session that was ended has no live row, and never gets one.            *)
EndedHaveNoRow ==
    /\ \A k \in ended : row[k] \in {"gone", "expired"}
    /\ \A r \in Requests : At(r, "audit") => row[req[r].target] \in {"gone", "expired"}

(* As LiveSessionsAreListed, whatever the row's hash is worth.              *)
Ending(k) ==
    \E r \in Requests :
        \/ At(r, "drop")  /\ req[r].target = k
        \/ At(r, "flush") /\ req[r].key = k

LiveRowsAreListed ==
    \A k \in Keys :
        account /\ row[k] = "live" => record[k] = "valid" \/ k \in cut \/ Ending(k)

(* A row's hash is not newer than the password its session was opened with,  *)
(* and a request that is going to save its session knows that password.     *)
HashesWereProved ==
    /\ password = versions
    /\ \A k \in Keys : hash[k] <= opened[k] /\ opened[k] <= versions
    /\ \A r \in Requests :
         /\ req[r].knows <= versions
         /\ \/ req[r].step = "save"
            \/ req[r].step \in {"open", "track"} /\ req[r].op \in {"login", "change"}
            => (req[r].key \in Keys => req[r].knows = opened[req[r].key])

(* A locked token is fresh, and nobody else's.                              *)
LockedTokensAreFresh ==
    /\ \A t \in Tokens : resets[t] <= 1 /\ (tokens[t] \in {"none", "fresh"} => resets[t] = 0)
    /\ \A r \in Requests, t \in Tokens :
         At(r, "reset") /\ t \in req[r].token =>
            /\ tokens[t] = "fresh"
            /\ \A q \in Requests : At(q, "reset") /\ t \in req[q].token => q = r

SessionInv ==
    /\ SessionTypeOK
    /\ KeysWereMade /\ EndedHaveNoRow /\ LiveRowsAreListed
    /\ HashesWereProved /\ LockedTokensAreFresh

----------------------------------------------------------------------------

(* A request moves to one of some steps, and keeps what it knows.           *)
Moved(r, steps) ==
    /\ req' \in [Requests -> Request]
    /\ req'[r].step \in steps
    /\ \A q \in Requests :
          /\ q # r => req'[q] = req[q]
          /\ req'[q].key = req[q].key /\ req'[q].op = req[q].op
          /\ req'[q].target = req[q].target
          /\ req'[q].knows = req[q].knows
          /\ req'[q].token = req[q].token

(* Goto moves a request, and nothing else. *)
LEMMA GotoMoves ==
  ASSUME req \in [Requests -> Request], NEW r \in Requests, NEW step \in Steps, Goto(r, step)
  PROVE  Moved(r, {step})
  BY DEF Goto, Request, Moved

(* Without a key to replace, Sync writes one record. *)
LEMMA SyncWritesOneRecord ==
  ASSUME SessionTypeOK, NEW k \in Keys, Sync(k, NoKey)
  PROVE  /\ record' \in [Keys -> {"none", "valid", "lapsed", "revoked"}]
         /\ record'[k] = "valid"
         /\ \A j \in Keys : j # k => record'[j] = record[j]
  BY SessionAssumption DEF Sync, SessionTypeOK, SessionAssumption

(* The sessions that somebody is ending are being ended still. *)
LEMMA EndingsGoOn ==
  ASSUME NEW r \in Requests, NEW steps, Moved(r, steps), ~At(r, "drop"), ~At(r, "flush")
  PROVE  \A k \in Keys : Ending(k) => Ending(k)'
  BY DEF Moved, At, Ending

(* A request that has marked its session as revoked is ending it. *)
LEMMA DroppingEnds ==
  ASSUME NEW r \in Requests, Moved(r, {"drop"})
  PROVE  \A k \in Keys : k = req[r].target => Ending(k)'
<1>1. req'[r].step = "drop" /\ req'[r].target = req[r].target
  BY DEF Moved
<1>2. ASSUME NEW k \in Keys, k = req[r].target
      PROVE  \E q \in Requests : \/ req'[q].step = "drop"  /\ req'[q].target = k
                                 \/ req'[q].step = "flush" /\ req'[q].key = k
  BY <1>1, <1>2, Zenon
<1> QED
  BY <1>2 DEF Ending, At

(* A request that does not take a lock leaves the locked tokens alone. *)
LEMMA LocksStay ==
  ASSUME LockedTokensAreFresh, NEW r \in Requests, NEW steps, Moved(r, steps),
         "reset" \notin steps, UNCHANGED <<tokens, resets>>
  PROVE  LockedTokensAreFresh'
<1>1. \A q \in Requests : At(q, "reset")' => q # r /\ At(q, "reset") /\ req'[q] = req[q]
  BY DEF Moved, At
<1> QED
  BY <1>1 DEF LockedTokensAreFresh, Moved

(* Finding, marking, dropping and auditing a session. *)
LEMMA RevokingKeepsInv ==
  ASSUME SessionInv, NEW r \in Requests, Revoking(r) PROVE SessionInv'
<1>1. /\ req \in [Requests -> Request] /\ req[r] \in Request
      /\ SessionTypeOK /\ KeysWereMade /\ EndedHaveNoRow /\ LiveRowsAreListed
      /\ HashesWereProved /\ LockedTokensAreFresh
  BY DEF SessionInv, SessionTypeOK
<1> USE <1>1 DEF SessionTypeOK, At, Request, WithKey, Listing, Revokes, account_, session_, ghosts
<1>2. CASE RevokeFind(r)
  <2>1. Moved(r, {"mark", "track"})
    BY <1>2, GotoMoves DEF RevokeFind, Moved, Steps
  <2>2. SessionTypeOK'
    BY <1>2, <2>1 DEF RevokeFind, Moved, SessionTypeOK, KeysWereMade
  <2>3. KeysWereMade'
    <3>1. UNCHANGED <<row, record>> /\ At(r, "find")
      BY <1>2 DEF RevokeFind
    <3>2. req'[r].step = "mark" => record[req[r].target] = "valid"
      BY <1>2, Zenon DEF RevokeFind, Goto
    <3> QED
      BY <2>1, <3>1, <3>2 DEF Moved, KeysWereMade
  <2>4. EndedHaveNoRow'
    BY <1>2, <2>1 DEF RevokeFind, Moved, EndedHaveNoRow, KeysWereMade
  <2>5. LiveRowsAreListed'
    BY <1>2, <2>1 DEF RevokeFind, Moved, LiveRowsAreListed, Ending, KeysWereMade
  <2>6. HashesWereProved'
    BY <1>2, <2>1 DEF RevokeFind, Moved, HashesWereProved, KeysWereMade, Versions
  <2>7. LockedTokensAreFresh'
    BY <1>2, <2>1, LocksStay DEF RevokeFind
  <2> QED
    BY <2>2, <2>3, <2>4, <2>5, <2>6, <2>7 DEF SessionInv
<1>3. CASE RevokeMark(r)
  <2>1. Moved(r, {"drop"})
    BY <1>3, GotoMoves DEF RevokeMark, Moved, Steps
  <2>2. SessionTypeOK'
    BY <1>3, <2>1 DEF RevokeMark, Moved, SessionTypeOK, KeysWereMade
  <2>3. KeysWereMade'
    BY <1>3, <2>1 DEF RevokeMark, Moved, KeysWereMade
  <2>4. EndedHaveNoRow'
    BY <1>3, <2>1 DEF RevokeMark, Moved, EndedHaveNoRow, KeysWereMade
  <2>5. LiveRowsAreListed'
    <3>1. UNCHANGED <<account, row, cut>> /\ At(r, "mark")
      BY <1>3 DEF RevokeMark
    <3>2. \A k \in Keys : record'[k] = record[k] \/ k = req[r].target
      BY <1>3 DEF RevokeMark
    <3>3. \A k \in Keys : k = req[r].target => Ending(k)'
      BY <2>1, DroppingEnds
    <3>4. \A k \in Keys : Ending(k) => Ending(k)'
      BY <2>1, <3>1, EndingsGoOn
    <3> QED
      BY <3>1, <3>2, <3>3, <3>4 DEF LiveRowsAreListed
  <2>6. HashesWereProved'
    BY <1>3, <2>1 DEF RevokeMark, Moved, HashesWereProved, KeysWereMade, Versions
  <2>7. LockedTokensAreFresh'
    BY <1>3, <2>1, LocksStay DEF RevokeMark
  <2> QED
    BY <2>2, <2>3, <2>4, <2>5, <2>6, <2>7 DEF SessionInv
<1>4. CASE RevokeDrop(r)
  <2>1. Moved(r, {"audit"})
    BY <1>4, GotoMoves DEF RevokeDrop, Moved, Steps
  <2>2. SessionTypeOK'
    BY <1>4, <2>1 DEF RevokeDrop, Moved, SessionTypeOK, KeysWereMade
  <2>3. KeysWereMade'
    BY <1>4, <2>1 DEF RevokeDrop, Moved, KeysWereMade
  <2>4. EndedHaveNoRow'
    BY <1>4, <2>1 DEF RevokeDrop, Moved, EndedHaveNoRow, KeysWereMade
  <2>5. LiveRowsAreListed'
    BY <1>4, <2>1 DEF RevokeDrop, Moved, LiveRowsAreListed, Ending, KeysWereMade
  <2>6. HashesWereProved'
    BY <1>4, <2>1 DEF RevokeDrop, Moved, HashesWereProved, KeysWereMade, Versions
  <2>7. LockedTokensAreFresh'
    BY <1>4, <2>1, LocksStay DEF RevokeDrop
  <2> QED
    BY <2>2, <2>3, <2>4, <2>5, <2>6, <2>7 DEF SessionInv
<1>5. CASE RevokeAudit(r)
  <2>1. Moved(r, {"leave", "track"})
    BY <1>5, GotoMoves DEF RevokeAudit, Moved, Steps
  <2>2. SessionTypeOK'
    BY <1>5, <2>1 DEF RevokeAudit, Moved, SessionTypeOK, KeysWereMade
  <2>3. KeysWereMade'
    BY <1>5, <2>1 DEF RevokeAudit, Moved, KeysWereMade
  <2>4. EndedHaveNoRow'
    BY <1>5, <2>1 DEF RevokeAudit, Moved, EndedHaveNoRow, KeysWereMade
  <2>5. LiveRowsAreListed'
    BY <1>5, <2>1 DEF RevokeAudit, Moved, LiveRowsAreListed, Ending, KeysWereMade
  <2>6. HashesWereProved'
    BY <1>5, <2>1 DEF RevokeAudit, Moved, HashesWereProved, KeysWereMade, Versions
  <2>7. LockedTokensAreFresh'
    BY <1>5, <2>1, LocksStay DEF RevokeAudit
  <2> QED
    BY <2>2, <2>3, <2>4, <2>5, <2>6, <2>7 DEF SessionInv
<1> QED
  BY <1>2, <1>3, <1>4, <1>5 DEF Revoking

(* Ending one's own session, and deleting the account. *)
LEMMA LeavingKeepsInv ==
  ASSUME SessionInv, NEW r \in Requests, Leaving(r) PROVE SessionInv'
<1>1. /\ req \in [Requests -> Request] /\ req[r] \in Request
      /\ SessionTypeOK /\ KeysWereMade /\ EndedHaveNoRow /\ LiveRowsAreListed
      /\ HashesWereProved /\ LockedTokensAreFresh
  BY DEF SessionInv, SessionTypeOK
<1> USE <1>1 DEF SessionTypeOK, At, Request, WithKey, Listing, Revokes, account_, session_, ghosts
<1>2. CASE Leave(r)
  <2>1. Moved(r, {"flush"})
    BY <1>2, GotoMoves DEF Leave, Moved, Steps
  <2>2. SessionTypeOK'
    BY <1>2, <2>1 DEF Leave, Moved, SessionTypeOK, KeysWereMade
  <2>3. KeysWereMade'
    BY <1>2, <2>1 DEF Leave, Moved, KeysWereMade
  <2>4. EndedHaveNoRow'
    BY <1>2, <2>1 DEF Leave, Moved, EndedHaveNoRow, KeysWereMade
  <2>5. LiveRowsAreListed'
    BY <1>2, <2>1 DEF Leave, Moved, LiveRowsAreListed, Ending, KeysWereMade
  <2>6. HashesWereProved'
    BY <1>2, <2>1 DEF Leave, Moved, HashesWereProved, KeysWereMade, Versions
  <2>7. LockedTokensAreFresh'
    BY <1>2, <2>1, LocksStay DEF Leave
  <2> QED
    BY <2>2, <2>3, <2>4, <2>5, <2>6, <2>7 DEF SessionInv
<1>3. CASE Flush(r)
  <2>1. Moved(r, {"erase", "done"})
    BY <1>3, GotoMoves DEF Flush, Moved, Steps
  <2>2. SessionTypeOK'
    BY <1>3, <2>1 DEF Flush, Moved, SessionTypeOK, KeysWereMade
  <2>3. KeysWereMade'
    BY <1>3, <2>1 DEF Flush, Moved, KeysWereMade
  <2>4. EndedHaveNoRow'
    BY <1>3, <2>1 DEF Flush, Moved, EndedHaveNoRow, KeysWereMade
  <2>5. LiveRowsAreListed'
    BY <1>3, <2>1 DEF Flush, Moved, LiveRowsAreListed, Ending, KeysWereMade
  <2>6. HashesWereProved'
    BY <1>3, <2>1 DEF Flush, Moved, HashesWereProved, KeysWereMade, Versions
  <2>7. LockedTokensAreFresh'
    BY <1>3, <2>1, LocksStay DEF Flush
  <2> QED
    BY <2>2, <2>3, <2>4, <2>5, <2>6, <2>7 DEF SessionInv
<1>4. CASE Erase(r)
  <2>1. Moved(r, {"done"})
    BY <1>4, GotoMoves DEF Erase, Moved, Steps
  <2>2. SessionTypeOK'
    BY <1>4, <2>1 DEF Erase, Moved, SessionTypeOK, KeysWereMade
  <2>3. KeysWereMade'
    BY <1>4, <2>1 DEF Erase, Moved, KeysWereMade
  <2>4. EndedHaveNoRow'
    BY <1>4, <2>1 DEF Erase, Moved, EndedHaveNoRow, KeysWereMade
  <2>5. LiveRowsAreListed'
    BY <1>4, <2>1 DEF Erase, Moved, LiveRowsAreListed, Ending, KeysWereMade
  <2>6. HashesWereProved'
    BY <1>4, <2>1 DEF Erase, Moved, HashesWereProved, KeysWereMade, Versions
  <2>7. LockedTokensAreFresh'
    BY <1>4, <2>1 DEF Erase, Moved, LockedTokensAreFresh, UserFree, Locked
  <2> QED
    BY <2>2, <2>3, <2>4, <2>5, <2>6, <2>7 DEF SessionInv
<1>5. CASE EraseRestricted(r)
  <2>1. Moved(r, {"done"})
    BY <1>5, GotoMoves DEF EraseRestricted, Moved, Steps
  <2>2. SessionTypeOK'
    BY <1>5, <2>1 DEF EraseRestricted, Moved, SessionTypeOK, KeysWereMade
  <2>3. KeysWereMade'
    BY <1>5, <2>1 DEF EraseRestricted, Moved, KeysWereMade
  <2>4. EndedHaveNoRow'
    BY <1>5, <2>1 DEF EraseRestricted, Moved, EndedHaveNoRow, KeysWereMade
  <2>5. LiveRowsAreListed'
    BY <1>5, <2>1 DEF EraseRestricted, Moved, LiveRowsAreListed, Ending, KeysWereMade
  <2>6. HashesWereProved'
    BY <1>5, <2>1 DEF EraseRestricted, Moved, HashesWereProved, KeysWereMade, Versions
  <2>7. LockedTokensAreFresh'
    BY <1>5, <2>1, LocksStay DEF EraseRestricted
  <2> QED
    BY <2>2, <2>3, <2>4, <2>5, <2>6, <2>7 DEF SessionInv
<1> QED
  BY <1>2, <1>3, <1>4, <1>5 DEF Leaving

(* Giving up. *)
LEMMA StoppingKeepsInv ==
  ASSUME SessionInv, NEW r \in Requests, FailWithoutAccount(r) \/ Interrupt(r) PROVE SessionInv'
<1>1. /\ req \in [Requests -> Request] /\ req[r] \in Request
      /\ SessionTypeOK /\ KeysWereMade /\ EndedHaveNoRow /\ LiveRowsAreListed
      /\ HashesWereProved /\ LockedTokensAreFresh
  BY DEF SessionInv, SessionTypeOK
<1> USE <1>1 DEF SessionTypeOK, At, Request, WithKey, Listing, Revokes, account_, session_, ghosts
<1>2. CASE FailWithoutAccount(r)
  <2>1. Moved(r, {"done"})
    BY <1>2, GotoMoves DEF FailWithoutAccount, Moved, Steps
  <2>2. SessionTypeOK'
    BY <1>2, <2>1 DEF FailWithoutAccount, Moved, SessionTypeOK, KeysWereMade
  <2>3. KeysWereMade'
    BY <1>2, <2>1 DEF FailWithoutAccount, Moved, KeysWereMade
  <2>4. EndedHaveNoRow'
    BY <1>2, <2>1 DEF FailWithoutAccount, Moved, EndedHaveNoRow, KeysWereMade
  <2>5. LiveRowsAreListed'
    BY <1>2, <2>1 DEF FailWithoutAccount, Moved, LiveRowsAreListed, Ending, KeysWereMade
  <2>6. HashesWereProved'
    BY <1>2, <2>1 DEF FailWithoutAccount, Moved, HashesWereProved, KeysWereMade, Versions
  <2>7. LockedTokensAreFresh'
    BY <1>2, <2>1, LocksStay DEF FailWithoutAccount
  <2> QED
    BY <2>2, <2>3, <2>4, <2>5, <2>6, <2>7 DEF SessionInv
<1>3. CASE Interrupt(r)
  <2>1. Moved(r, {"done"})
    BY <1>3, GotoMoves DEF Interrupt, Moved, Steps
  <2>2. SessionTypeOK'
    BY <1>3, <2>1 DEF Interrupt, Moved, SessionTypeOK, KeysWereMade
  <2>3. KeysWereMade'
    BY <1>3, <2>1 DEF Interrupt, Moved, KeysWereMade
  <2>4. EndedHaveNoRow'
    BY <1>3, <2>1 DEF Interrupt, Moved, EndedHaveNoRow, KeysWereMade
  <2>5. LiveRowsAreListed'
    BY <1>3, <2>1 DEF Interrupt, Moved, LiveRowsAreListed, Ending, KeysWereMade
  <2>6. HashesWereProved'
    BY <1>3, <2>1 DEF Interrupt, Moved, HashesWereProved, KeysWereMade, Versions
  <2>7. LockedTokensAreFresh'
    BY <1>3, <2>1, LocksStay DEF Interrupt
  <2> QED
    BY <2>2, <2>3, <2>4, <2>5, <2>6, <2>7 DEF SessionInv
<1> QED
  BY <1>2, <1>3

(* Resetting the password. *)
LEMMA ResettingKeepsInv ==
  ASSUME SessionInv, NEW r \in Requests, ResetLock(r) \/ ResetPassword(r) PROVE SessionInv'
<1>1. /\ req \in [Requests -> Request] /\ req[r] \in Request
      /\ SessionTypeOK /\ KeysWereMade /\ EndedHaveNoRow /\ LiveRowsAreListed
      /\ HashesWereProved /\ LockedTokensAreFresh
  BY DEF SessionInv, SessionTypeOK
<1> USE <1>1 DEF SessionTypeOK, At, Request, WithKey, Listing, Revokes, account_, session_, ghosts
<1>2. CASE ResetLock(r)
  <2>1. Moved(r, {"reset", "done"})
    BY <1>2, GotoMoves DEF ResetLock, Moved, Steps
  <2>2. SessionTypeOK'
    BY <1>2, <2>1 DEF ResetLock, Moved, SessionTypeOK, KeysWereMade
  <2>3. KeysWereMade'
    BY <1>2, <2>1 DEF ResetLock, Moved, KeysWereMade
  <2>4. EndedHaveNoRow'
    BY <1>2, <2>1 DEF ResetLock, Moved, EndedHaveNoRow, KeysWereMade
  <2>5. LiveRowsAreListed'
    BY <1>2, <2>1 DEF ResetLock, Moved, LiveRowsAreListed, Ending, KeysWereMade
  <2>6. HashesWereProved'
    BY <1>2, <2>1 DEF ResetLock, Moved, HashesWereProved, KeysWereMade, Versions
  <2>7. LockedTokensAreFresh'
    <3>1. UNCHANGED <<tokens, resets>>
      BY <1>2 DEF ResetLock
    <3>2. req'[r].step = "reset" => \A t \in req[r].token : tokens[t] = "fresh"
      BY <1>2 DEF ResetLock, Goto
    <3>3. \A t \in Tokens, q \in Requests : ~(At(q, "reset") /\ t \in req[q].token)
      BY <1>2 DEF ResetLock, UserFree, Locked
    <3> QED
      BY <2>1, <3>1, <3>2, <3>3 DEF Moved, LockedTokensAreFresh
  <2> QED
    BY <2>2, <2>3, <2>4, <2>5, <2>6, <2>7 DEF SessionInv
<1>3. CASE ResetPassword(r)
  <2>1. Moved(r, {"done"})
    BY <1>3, GotoMoves DEF ResetPassword, Moved, Steps
  <2>2. SessionTypeOK'
    <3>1. versions' \in Versions /\ password' \in Versions
      BY <1>3, SessionAssumption DEF ResetPassword, Versions, SessionAssumption
    <3>2. /\ tokens' \in [Tokens -> {"none", "fresh", "used", "expired", "gone"}]
          /\ resets' \in [Tokens -> Nat]
      BY <1>3 DEF ResetPassword
    <3> QED
      BY <1>3, <2>1, <3>1, <3>2 DEF ResetPassword, Moved
  <2>3. KeysWereMade'
    BY <1>3, <2>1 DEF ResetPassword, Moved, KeysWereMade
  <2>4. EndedHaveNoRow'
    BY <1>3, <2>1 DEF ResetPassword, Moved, EndedHaveNoRow, KeysWereMade
  <2>5. LiveRowsAreListed'
    BY <1>3, <2>1 DEF ResetPassword, Moved, LiveRowsAreListed, Ending, KeysWereMade
  <2>6. HashesWereProved'
    BY <1>3, <2>1 DEF ResetPassword, Moved, HashesWereProved, KeysWereMade, Versions
  <2>7. LockedTokensAreFresh'
    BY <1>3, <2>1 DEF ResetPassword, Moved, LockedTokensAreFresh
  <2> QED
    BY <2>2, <2>3, <2>4, <2>5, <2>6, <2>7 DEF SessionInv
<1> QED
  BY <1>2, <1>3

(* Serving a request that came with a session. *)
LEMMA VisitingKeepsInv ==
  ASSUME SessionInv, NEW r \in Requests, Track(r) \/ Save(r) \/ SyncFirst(r) \/ \E lapsed \in SUBSET Keys : Cleanup(r, lapsed) PROVE SessionInv'
<1>1. /\ req \in [Requests -> Request] /\ req[r] \in Request
      /\ SessionTypeOK /\ KeysWereMade /\ EndedHaveNoRow /\ LiveRowsAreListed
      /\ HashesWereProved /\ LockedTokensAreFresh
  BY DEF SessionInv, SessionTypeOK
<1> USE <1>1 DEF SessionTypeOK, At, Request, WithKey, Listing, Revokes, account_, session_, ghosts
<1>2. CASE Track(r)
  <2>1. Moved(r, {"save", "done"})
    BY <1>2, GotoMoves DEF Track, Moved, Steps
  <2>a. /\ record' \in [Keys -> {"none", "valid", "lapsed", "revoked"}]
        /\ record'[req[r].key] = "valid"
        /\ \A j \in Keys : j # req[r].key => record'[j] = record[j]
    BY <1>2, SyncWritesOneRecord DEF Track, KeysWereMade
  <2>2. SessionTypeOK'
    BY <1>2, <2>1, <2>a DEF Track, Moved, SessionTypeOK, KeysWereMade
  <2>3. KeysWereMade'
    BY <1>2, <2>1, <2>a DEF Track, Moved, KeysWereMade
  <2>4. EndedHaveNoRow'
    BY <1>2, <2>1, <2>a DEF Track, Moved, EndedHaveNoRow, KeysWereMade
  <2>5. LiveRowsAreListed'
    <3>1. UNCHANGED <<account, row, cut>> /\ At(r, "track")
      BY <1>2 DEF Track
    <3>2. \A k \in Keys : Ending(k) => Ending(k)'
      BY <2>1, <3>1, EndingsGoOn
    <3> QED
      BY <2>a, <3>1, <3>2 DEF LiveRowsAreListed
  <2>6. HashesWereProved'
    <3>1. UNCHANGED <<password, versions, hash, opened>> /\ At(r, "track")
      BY <1>2 DEF Track
    <3>2. req'[r].step = "save" => req[r].op \in {"login", "change"}
      BY <1>2 DEF Track, Goto
    <3>3. req'[r].step \in {"save", "done"}
      BY <2>1 DEF Moved
    <3> QED
      BY <2>1, <3>1, <3>2, <3>3 DEF Moved, HashesWereProved
  <2>7. LockedTokensAreFresh'
    BY <1>2, <2>1, LocksStay DEF Track
  <2> QED
    BY <2>2, <2>3, <2>4, <2>5, <2>6, <2>7 DEF SessionInv
<1>3. CASE Save(r)
  <2>1. Moved(r, {"done"})
    BY <1>3, GotoMoves DEF Save, Moved, Steps
  <2>2. SessionTypeOK'
    BY <1>3, <2>1 DEF Save, Moved, SessionTypeOK, KeysWereMade
  <2>3. KeysWereMade'
    BY <1>3, <2>1 DEF Save, Moved, KeysWereMade
  <2>4. EndedHaveNoRow'
    BY <1>3, <2>1 DEF Save, Moved, EndedHaveNoRow, KeysWereMade
  <2>5. LiveRowsAreListed'
    BY <1>3, <2>1 DEF Save, Moved, LiveRowsAreListed, Ending, KeysWereMade
  <2>6. HashesWereProved'
    <3>1. req[r].key \in Keys /\ req[r].knows = opened[req[r].key]
      BY <1>3 DEF Save, KeysWereMade, HashesWereProved
    <3>2. \A k \in Keys : hash'[k] = hash[k] \/ hash'[k] = opened[k]
      BY <1>3, <3>1 DEF Save
    <3>3. UNCHANGED <<password, versions, opened>> /\ req'[r].step = "done"
      BY <1>3, <2>1 DEF Save, Moved
    <3>4. \A k \in Keys : opened[k] <= opened[k] /\ opened[k] \in Nat
      BY DEF Versions
    <3>5. \A k \in Keys : hash'[k] <= opened[k] /\ opened[k] <= versions
      BY <3>2, <3>4 DEF HashesWereProved
    <3> QED
      BY <2>1, <3>3, <3>5 DEF Moved, HashesWereProved
  <2>7. LockedTokensAreFresh'
    BY <1>3, <2>1, LocksStay DEF Save
  <2> QED
    BY <2>2, <2>3, <2>4, <2>5, <2>6, <2>7 DEF SessionInv
<1>4. CASE SyncFirst(r)
  <2>1. Moved(r, {"cleanup", "find"})
    BY <1>4, GotoMoves DEF SyncFirst, Moved, Steps
  <2>a. /\ record' \in [Keys -> {"none", "valid", "lapsed", "revoked"}]
        /\ record'[req[r].key] = "valid"
        /\ \A j \in Keys : j # req[r].key => record'[j] = record[j]
    BY <1>4, SyncWritesOneRecord DEF SyncFirst, KeysWereMade
  <2>2. SessionTypeOK'
    BY <1>4, <2>1, <2>a DEF SyncFirst, Moved, SessionTypeOK, KeysWereMade
  <2>3. KeysWereMade'
    <3>1. UNCHANGED row /\ req[r].key \in Keys /\ req[r].op \in {"list", "revoke"}
      BY <1>4 DEF SyncFirst, KeysWereMade
    <3>2. \A k \in Keys : record'[k] # "none" => row[k] # "unused"
      BY <2>a, <3>1 DEF KeysWereMade
    <3>4. req'[r].step \in {"cleanup", "find"}
      BY <2>1 DEF Moved
    <3>5. req[r].target \in Keys
      BY <1>4 DEF SyncFirst, KeysWereMade
    <3> QED
      BY <2>1, <3>1, <3>2, <3>4, <3>5 DEF Moved, KeysWereMade
  <2>4. EndedHaveNoRow'
    BY <1>4, <2>1, <2>a DEF SyncFirst, Moved, EndedHaveNoRow, KeysWereMade
  <2>5. LiveRowsAreListed'
    <3>1. UNCHANGED <<account, row, cut>> /\ At(r, "sync")
      BY <1>4 DEF SyncFirst
    <3>2. \A k \in Keys : Ending(k) => Ending(k)'
      BY <2>1, <3>1, EndingsGoOn
    <3> QED
      BY <2>a, <3>1, <3>2 DEF LiveRowsAreListed
  <2>6. HashesWereProved'
    BY <1>4, <2>1, <2>a DEF SyncFirst, Moved, HashesWereProved, KeysWereMade, Versions
  <2>7. LockedTokensAreFresh'
    BY <1>4, <2>1, LocksStay DEF SyncFirst
  <2> QED
    BY <2>2, <2>3, <2>4, <2>5, <2>6, <2>7 DEF SessionInv
<1>5. ASSUME NEW lapsed \in SUBSET Keys, Cleanup(r, lapsed) PROVE SessionInv'
  <2>1. Moved(r, {"track"})
    BY <1>5, GotoMoves DEF Cleanup, Moved, Steps
  <2>2. SessionTypeOK'
    BY <1>5, <2>1 DEF Cleanup, Moved, SessionTypeOK, KeysWereMade
  <2>3. KeysWereMade'
    BY <1>5, <2>1 DEF Cleanup, Moved, KeysWereMade
  <2>4. EndedHaveNoRow'
    BY <1>5, <2>1 DEF Cleanup, Moved, EndedHaveNoRow, KeysWereMade
  <2>5. LiveRowsAreListed'
    BY <1>5, <2>1 DEF Cleanup, Moved, LiveRowsAreListed, Ending, KeysWereMade
  <2>6. HashesWereProved'
    BY <1>5, <2>1 DEF Cleanup, Moved, HashesWereProved, KeysWereMade, Versions
  <2>7. LockedTokensAreFresh'
    BY <1>5, <2>1, LocksStay DEF Cleanup
  <2> QED
    BY <2>2, <2>3, <2>4, <2>5, <2>6, <2>7 DEF SessionInv
<1> QED
  BY <1>2, <1>3, <1>4, <1>5

(* A request begins with what is true of its session and of its user.       *)
LEMMA BeginningKeepsInv ==
  ASSUME SessionInv, NEW r \in Requests, NEW request \in Request, Begin(r, request),
         UNCHANGED <<account_, session_, tokens, ghosts>>,
         request.step \in {"track", "sync", "leave", "change", "open", "token"},
         request.key \in Keys => row[request.key] # "unused" /\ opened[request.key] = request.knows,
         request.step \in WithKey => request.key \in Keys,
         request.step \in Listing => request.target \in Keys /\ request.op \in {"list", "revoke"},
         request.knows <= versions
  PROVE  SessionInv'
<1>1. /\ SessionTypeOK /\ KeysWereMade /\ EndedHaveNoRow /\ LiveRowsAreListed
      /\ HashesWereProved /\ LockedTokensAreFresh
  BY DEF SessionInv
<1>2. /\ req' \in [Requests -> Request]
      /\ req'[r] = request /\ req[r].step = "idle"
      /\ \A q \in Requests : q # r => req'[q] = req[q]
  BY <1>1 DEF Begin, SessionTypeOK, At
<1>3. SessionTypeOK'
  BY <1>1, <1>2 DEF SessionTypeOK, account_, session_, ghosts
<1>4. KeysWereMade'
  BY <1>1, <1>2 DEF SessionTypeOK, KeysWereMade, session_, WithKey, Listing, Revokes
<1>5. EndedHaveNoRow'
  BY <1>1, <1>2 DEF EndedHaveNoRow, At, session_, ghosts
<1>6. LiveRowsAreListed'
  <2>1. \A k \in Keys : Ending(k) => Ending(k)'
    BY <1>2 DEF Ending, At
  <2> QED
    BY <1>1, <2>1 DEF LiveRowsAreListed, account_, session_, ghosts
<1>7. HashesWereProved'
  BY <1>1, <1>2 DEF HashesWereProved, account_, session_, ghosts
<1>8. LockedTokensAreFresh'
  BY <1>1, <1>2 DEF LockedTokensAreFresh, At, ghosts
<1> QED
  BY <1>3, <1>4, <1>5, <1>6, <1>7, <1>8 DEF SessionInv

(* A request that comes with a session, or logs in, or presents a token.     *)
LEMMA ArrivingKeepsInv ==
  ASSUME SessionInv, NEW r \in Requests,
         \/ \E op \in SessionOps, k, j \in Keys : Arrive(r, op, k, j)
         \/ Login(r) \/ \E k \in Keys : LoginAgain(r, k)
         \/ \E t \in Tokens : Reset(r, t)
  PROVE  SessionInv'
<1>1. /\ SessionTypeOK /\ KeysWereMade /\ HashesWereProved
      /\ versions \in Nat /\ password \in Versions /\ 0 \in Versions /\ 0 <= versions
  BY SessionAssumption DEF SessionInv, SessionTypeOK, Versions, SessionAssumption
<1>2. \A k \in Keys : RequestAuthenticates(k) => row[k] # "unused" /\ opened[k] = password
  BY <1>1 DEF RequestAuthenticates, HashesWereProved, SessionTypeOK, Versions
<1>3. NoKey \notin Keys
  BY SessionAssumption DEF SessionAssumption
<1>4. ASSUME NEW op \in SessionOps, NEW k \in Keys, NEW j \in Keys, Arrive(r, op, k, j)
      PROVE  SessionInv'
  <2> DEFINE request == [Idle EXCEPT !.op = op, !.step = FirstStep[op], !.key = k,
                                     !.target = j, !.knows = password]
  <2>1. /\ FirstStep[op] \in {"track", "sync", "leave", "change"}
        /\ FirstStep[op] = "sync" => op \in {"list", "revoke"}
    BY DEF FirstStep, SessionOps
  <2>2. /\ request \in Request
        /\ request.step = FirstStep[op] /\ request.op = op /\ request.key = k
        /\ request.target = j /\ request.knows = password
    BY <1>1, <2>1 DEF Idle, Request, Steps, AllOps
  <2>3. Begin(r, request) /\ UNCHANGED <<account_, session_, tokens, ghosts>>
    BY <1>4 DEF Arrive
  <2>4. row[k] # "unused" /\ opened[k] = password /\ password <= versions
    BY <1>1, <1>2, <1>4 DEF Arrive, HashesWereProved
  <2> HIDE DEF request
  <2> QED
    BY <1>1, <2>1, <2>2, <2>3, <2>4, BeginningKeepsInv DEF WithKey, Listing
<1>5. CASE Login(r)
  <2> DEFINE request == [Idle EXCEPT !.op = "login", !.step = "open", !.knows = password]
  <2>1. /\ request \in Request
        /\ request.step = "open" /\ request.key = NoKey /\ request.knows = password
    BY <1>1 DEF Idle, Request, Steps, AllOps
  <2>2. Begin(r, request) /\ UNCHANGED <<account_, session_, tokens, ghosts>>
    BY <1>5 DEF Login
  <2>3. password <= versions
    BY <1>1 DEF HashesWereProved
  <2> HIDE DEF request
  <2> QED
    BY <1>1, <1>3, <2>1, <2>2, <2>3, BeginningKeepsInv DEF WithKey, Listing
<1>6. ASSUME NEW k \in Keys, LoginAgain(r, k) PROVE SessionInv'
  <2> DEFINE request == [Idle EXCEPT !.op = "login", !.step = "open", !.key = k, !.knows = password]
  <2>1. /\ request \in Request
        /\ request.step = "open" /\ request.key = k /\ request.knows = password
    BY <1>1 DEF Idle, Request, Steps, AllOps
  <2>2. Begin(r, request) /\ UNCHANGED <<account_, session_, tokens, ghosts>>
    BY <1>6 DEF LoginAgain
  <2>3. row[k] # "unused" /\ opened[k] = password /\ password <= versions
    BY <1>1, <1>2, <1>6 DEF LoginAgain, HashesWereProved
  <2> HIDE DEF request
  <2> QED
    BY <1>1, <2>1, <2>2, <2>3, BeginningKeepsInv DEF WithKey, Listing
<1>7. ASSUME NEW t \in Tokens, Reset(r, t) PROVE SessionInv'
  <2> DEFINE request == [Idle EXCEPT !.op = "reset", !.step = "token", !.token = {t}]
  <2>1. /\ request \in Request
        /\ request.step = "token" /\ request.key = NoKey /\ request.knows = 0
    BY <1>1 DEF Idle, Request, Steps, AllOps
  <2>2. Begin(r, request) /\ UNCHANGED <<account_, session_, tokens, ghosts>>
    BY <1>7 DEF Reset
  <2> HIDE DEF request
  <2> QED
    BY <1>1, <1>3, <2>1, <2>2, BeginningKeepsInv DEF WithKey, Listing
<1> QED
  BY <1>4, <1>5, <1>6, <1>7

(* What the passing of time and the user's mailbox do.                        *)
LEMMA WaitingKeepsInv ==
  ASSUME SessionInv,
         \/ \E k \in Keys : ArriveStale(k) \/ Expire(k)
         \/ \E t \in Tokens : IssueToken(t) \/ ExpireToken(t)
  PROVE  SessionInv'
<1>1. /\ SessionTypeOK /\ KeysWereMade /\ EndedHaveNoRow /\ LiveRowsAreListed
      /\ HashesWereProved /\ LockedTokensAreFresh
  BY DEF SessionInv
<1>2. ASSUME NEW k \in Keys, ArriveStale(k) \/ Expire(k) PROVE SessionInv'
  <2>1. /\ row' \in [Keys -> {"unused", "live", "expired", "gone"}]
        /\ row[k] = "live" /\ row'[k] \in {"gone", "expired"}
        /\ \A j \in Keys : j # k => row'[j] = row[j]
        /\ UNCHANGED <<account_, hash, record, cookies, tokens, req, ghosts>>
    BY <1>1, <1>2 DEF ArriveStale, Expire, SessionTypeOK
  <2>2. SessionTypeOK'
    BY <1>1, <2>1 DEF SessionTypeOK, account_, ghosts
  <2>3. KeysWereMade'
    <3>1. \A j \in Keys : row[j] # "unused" => row'[j] # "unused"
      BY <2>1
    <3> QED
      BY <1>1, <2>1, <3>1 DEF KeysWereMade, Listing, Revokes
  <2>4. EndedHaveNoRow'
    BY <1>1, <2>1 DEF EndedHaveNoRow, At, SessionTypeOK, KeysWereMade, Listing, Revokes, ghosts
  <2>5. LiveRowsAreListed'
    BY <1>1, <2>1 DEF LiveRowsAreListed, Ending, At, account_, ghosts
  <2>6. HashesWereProved'
    BY <1>1, <2>1 DEF HashesWereProved, account_, ghosts
  <2>7. LockedTokensAreFresh'
    BY <1>1, <2>1 DEF LockedTokensAreFresh, At, ghosts
  <2> QED
    BY <2>2, <2>3, <2>4, <2>5, <2>6, <2>7 DEF SessionInv
<1>3. ASSUME NEW t \in Tokens, IssueToken(t) \/ ExpireToken(t) PROVE SessionInv'
  <2>1. UNCHANGED <<account_, session_, req, ghosts>>
    BY <1>3 DEF IssueToken, ExpireToken
  <2>2. SessionTypeOK'
    BY <1>1, <1>3, <2>1 DEF SessionTypeOK, account_, session_, ghosts, IssueToken, ExpireToken
  <2>3. KeysWereMade'
    BY <1>1, <2>1 DEF KeysWereMade, session_
  <2>4. EndedHaveNoRow'
    BY <1>1, <2>1 DEF EndedHaveNoRow, At, session_, ghosts
  <2>5. LiveRowsAreListed'
    BY <1>1, <2>1 DEF LiveRowsAreListed, Ending, At, account_, session_, ghosts
  <2>6. HashesWereProved'
    BY <1>1, <2>1 DEF HashesWereProved, account_, session_, ghosts
  <2>7. LockedTokensAreFresh'
    <3>1. CASE IssueToken(t)
      BY <1>1, <2>1, <3>1 DEF LockedTokensAreFresh, At, ghosts, IssueToken, SessionTypeOK
    <3>2. CASE ExpireToken(t)
      BY <1>1, <2>1, <3>2 DEF LockedTokensAreFresh, At, ghosts, ExpireToken, Locked, SessionTypeOK
    <3> QED
      BY <1>3, <3>1, <3>2
  <2> QED
    BY <2>2, <2>3, <2>4, <2>5, <2>6, <2>7 DEF SessionInv
<1> QED
  BY <1>2, <1>3

(* A session is opened, or the one of a browser that has one is kept.         *)
LEMMA OpeningKeepsInv ==
  ASSUME SessionInv, NEW r \in Requests, OpenAgain(r) \/ \E k \in Keys : Open(r, k)
  PROVE  SessionInv'
<1>1. /\ req \in [Requests -> Request] /\ req[r] \in Request
      /\ SessionTypeOK /\ KeysWereMade /\ EndedHaveNoRow /\ LiveRowsAreListed
      /\ HashesWereProved /\ LockedTokensAreFresh
  BY DEF SessionInv, SessionTypeOK
<1> USE <1>1 DEF SessionTypeOK, At, Request, WithKey, Listing, Revokes, account_, session_, ghosts
<1>2. CASE OpenAgain(r)
  <2>1. Moved(r, {"track", "done"})
    BY <1>2, GotoMoves DEF OpenAgain, Moved, Steps
  <2>a. /\ record' \in [Keys -> {"none", "valid", "lapsed", "revoked"}]
        /\ \A j \in Keys : record'[j] = record[j] \/ (record'[j] = "valid" /\ row[j] = "live")
        /\ UNCHANGED <<account_, row, hash, cookies, tokens, ghosts>>
        /\ At(r, "open")
    <3>1. CASE row[req[r].key] = "live"
      BY <1>2, <3>1, SyncWritesOneRecord DEF OpenAgain
    <3>2. CASE row[req[r].key] # "live"
      BY <1>2, <3>2 DEF OpenAgain
    <3> QED
      BY <3>1, <3>2
  <2>2. SessionTypeOK'
    BY <1>2, <2>1, <2>a DEF OpenAgain, Moved, SessionTypeOK, KeysWereMade
  <2>3. KeysWereMade'
    BY <1>2, <2>1, <2>a DEF OpenAgain, Moved, KeysWereMade
  <2>4. EndedHaveNoRow'
    BY <1>2, <2>1, <2>a DEF OpenAgain, Moved, EndedHaveNoRow, KeysWereMade
  <2>5. LiveRowsAreListed'
    BY <1>2, <2>1, <2>a DEF OpenAgain, Moved, LiveRowsAreListed, Ending, KeysWereMade
  <2>6. HashesWereProved'
    <3>1. UNCHANGED <<password, versions, hash, opened>> /\ At(r, "open") /\ req[r].key \in Keys
      BY <1>2, SessionAssumption DEF OpenAgain
    <3> QED
      BY <2>1, <3>1 DEF Moved, HashesWereProved
  <2>7. LockedTokensAreFresh'
    BY <1>2, <2>1, LocksStay DEF OpenAgain
  <2> QED
    BY <2>2, <2>3, <2>4, <2>5, <2>6, <2>7 DEF SessionInv
<1>3. ASSUME NEW new \in Keys, Open(r, new) PROVE SessionInv'
  <2>1. /\ req' \in [Requests -> Request]
        /\ req'[r].step = "track" /\ req'[r].key = new /\ req'[r].knows = req[r].knows
        /\ \A q \in Requests : q # r => req'[q] = req[q]
    BY <1>3 DEF Open, Steps
  <2>2. /\ record' \in [Keys -> {"none", "valid", "lapsed", "revoked"}]
        /\ record'[new] = "valid"
        /\ \A j \in Keys : j # new => record'[j] = record[j]
    BY <1>3, SyncWritesOneRecord DEF Open
  <2>3. /\ hash' \in [Keys -> Versions] /\ opened' \in [Keys -> Versions]
        /\ row' \in [Keys -> {"unused", "live", "expired", "gone"}]
        /\ row[new] = "unused" /\ row'[new] = "live"
        /\ hash'[new] = req[r].knows /\ opened'[new] = req[r].knows
        /\ \A j \in Keys : j # new => row'[j] = row[j] /\ hash'[j] = hash[j] /\ opened'[j] = opened[j]
    <3>1. /\ row' = [row EXCEPT ![new] = "live"] /\ row[new] = "unused"
          /\ hash' = [hash EXCEPT ![new] = req[r].knows]
          /\ opened' = [opened EXCEPT ![new] = req[r].knows]
      BY <1>3 DEF Open
    <3>2. req[r].knows \in Versions
      OBVIOUS
    <3> QED
      BY <3>1, <3>2
  <2>a. UNCHANGED <<account, password, versions, cookies, tokens, ended, cut, resets>> /\ At(r, "open")
    BY <1>3 DEF Open
  <2>4. SessionTypeOK'
    BY <2>1, <2>2, <2>3, <2>a
  <2>5. KeysWereMade'
    BY <2>1, <2>2, <2>3, <2>a DEF KeysWereMade
  <2>6. EndedHaveNoRow'
    BY <2>1, <2>3, <2>a DEF EndedHaveNoRow, KeysWereMade
  <2>7. LiveRowsAreListed'
    <3>1. \A k \in Keys : Ending(k) => Ending(k)'
      BY <2>1, <2>a DEF Ending
    <3> QED
      BY <2>2, <2>3, <2>a, <3>1 DEF LiveRowsAreListed
  <2>8. HashesWereProved'
    <3>1. \A k \in Keys : hash'[k] <= opened'[k] /\ opened'[k] <= versions
      BY <2>3 DEF HashesWereProved, Versions
    <3>2. ASSUME NEW q \in Requests, q # r, req[q].key \in Keys
          PROVE  opened'[req[q].key] = opened[req[q].key]
      BY <2>3, <3>2 DEF KeysWereMade
    <3> QED
      BY <2>1, <2>3, <2>a, <3>1, <3>2 DEF HashesWereProved
  <2>9. LockedTokensAreFresh'
    <3>1. \A q \in Requests : At(q, "reset")' => At(q, "reset") /\ req'[q] = req[q]
      BY <2>1
    <3> QED
      BY <2>a, <3>1 DEF LockedTokensAreFresh
  <2> QED
    BY <2>4, <2>5, <2>6, <2>7, <2>8, <2>9 DEF SessionInv
<1> QED
  BY <1>2, <1>3

(* The session moves to a new key, with the hash of the old password.         *)
LEMMA ChangingKeepsInv ==
  ASSUME SessionInv, NEW r \in Requests, NEW new \in Keys, ChangePassword(r, new)
  PROVE  SessionInv'
<1>1. /\ req \in [Requests -> Request] /\ req[r] \in Request
      /\ SessionTypeOK /\ KeysWereMade /\ EndedHaveNoRow /\ LiveRowsAreListed
      /\ HashesWereProved /\ LockedTokensAreFresh
  BY DEF SessionInv, SessionTypeOK
<1> USE <1>1 DEF SessionTypeOK, At, Request, WithKey, Listing, Revokes, account_, session_, ghosts
<1> DEFINE old == req[r].key
<1>2. /\ old \in Keys /\ old # new /\ row[old] # "unused" /\ row[new] = "unused"
      /\ At(r, "change") /\ versions \in Nat /\ password = versions
      /\ versions + 1 \in Versions
  BY SessionAssumption DEF ChangePassword, KeysWereMade, HashesWereProved, Versions, SessionAssumption
<1>3. /\ versions' = versions + 1 /\ password' = versions + 1
      /\ UNCHANGED <<account, cookies, tokens, cut, resets>>
      /\ ended' = ended \cup {old}
  BY DEF ChangePassword
<1>4. /\ req' \in [Requests -> Request]
      /\ req'[r].step = "track" /\ req'[r].key = new /\ req'[r].knows = versions + 1
      /\ \A q \in Requests : q # r => req'[q] = req[q]
  BY <1>2 DEF ChangePassword, Steps
<1>5. /\ record' \in [Keys -> {"none", "valid", "lapsed", "revoked"}]
      /\ record'[new] = "valid"
      /\ \A j \in Keys : record'[j] = record[j] \/ j = new \/ (j = old /\ record[j] # "none")
  BY <1>2 DEF ChangePassword, Sync
<1>6. /\ hash' \in [Keys -> Versions] /\ opened' \in [Keys -> Versions]
      /\ row' \in [Keys -> {"unused", "live", "expired", "gone"}]
      /\ row'[new] = "live" /\ row'[old] = "gone"
      /\ hash'[new] = req[r].knows /\ opened'[new] = versions + 1
      /\ \A j \in Keys : /\ j # new /\ j # old => row'[j] = row[j]
                         /\ j # new => hash'[j] = hash[j] /\ opened'[j] = opened[j]
  BY <1>2 DEF ChangePassword
<1> HIDE DEF old
<1>7. SessionTypeOK'
  BY <1>2, <1>3, <1>4, <1>5, <1>6
<1>8. KeysWereMade'
  BY <1>2, <1>4, <1>5, <1>6 DEF KeysWereMade
<1>9. EndedHaveNoRow'
  <2>1. \A k \in Keys : row[k] \in {"gone", "expired"} => row'[k] \in {"gone", "expired"}
    BY <1>2, <1>6
  <2>2. \A k \in ended' : k = old \/ k \in ended
    BY <1>3
  <2>3. \A q \in Requests : At(q, "audit")' => At(q, "audit") /\ req'[q] = req[q]
    BY <1>4
  <2> QED
    BY <1>6, <2>1, <2>2, <2>3 DEF EndedHaveNoRow, KeysWereMade
<1>10. LiveRowsAreListed'
  <2>1. \A k \in Keys : Ending(k) => Ending(k)'
    BY <1>2, <1>4 DEF Ending
  <2> QED
    BY <1>2, <1>3, <1>5, <1>6, <2>1 DEF LiveRowsAreListed
<1>11. HashesWereProved'
  <2>1. \A k \in Keys : hash'[k] <= opened'[k] /\ opened'[k] <= versions'
    BY <1>2, <1>3, <1>6 DEF HashesWereProved, Versions
  <2>2. ASSUME NEW q \in Requests, q # r
        PROVE  /\ req'[q].knows <= versions'
               /\ req'[q].key \in Keys => opened'[req'[q].key] = opened[req[q].key]
    BY <1>2, <1>3, <1>4, <1>6, <2>2 DEF HashesWereProved, KeysWereMade, Versions
  <2> QED
    BY <1>3, <1>4, <1>6, <2>1, <2>2 DEF HashesWereProved, Versions
<1>12. LockedTokensAreFresh'
  <2>1. \A q \in Requests : At(q, "reset")' => At(q, "reset") /\ req'[q] = req[q]
    BY <1>4
  <2> QED
    BY <1>3, <2>1 DEF LockedTokensAreFresh
<1> QED
  BY <1>7, <1>8, <1>9, <1>10, <1>11, <1>12 DEF SessionInv

(* A new account has only sessions that were opened with its password.        *)
LEMMA InitEstablishesSessionInv == SessionsInit => SessionInv
<1> SUFFICES ASSUME SessionsInit PROVE SessionInv
  OBVIOUS
<1>1. 0 \in Versions /\ Initial \subseteq Keys /\ NoKey \notin Keys
  BY SessionAssumption DEF SessionAssumption, Versions
<1>2. SessionTypeOK
  BY <1>1 DEF SessionsInit, SessionTypeOK, Idle, Request, Steps
<1>3. KeysWereMade
  BY <1>1 DEF SessionsInit, KeysWereMade, Idle, WithKey, Listing, Revokes
<1>4. EndedHaveNoRow /\ LiveRowsAreListed
  BY <1>1 DEF SessionsInit, EndedHaveNoRow, LiveRowsAreListed, At, Idle
<1>5. HashesWereProved
  BY <1>1 DEF SessionsInit, HashesWereProved, Idle
<1>6. LockedTokensAreFresh
  BY DEF SessionsInit, LockedTokensAreFresh, At, Idle
<1> QED
  BY <1>2, <1>3, <1>4, <1>5, <1>6 DEF SessionInv

(* Every step keeps it. *)
LEMMA NextKeepsSessionInv == SessionInv /\ [SessionsNext]_svars => SessionInv'
<1> SUFFICES ASSUME SessionInv, [SessionsNext]_svars PROVE SessionInv'
  OBVIOUS
<1>1. ASSUME NEW r \in Requests,
             Visiting(r) \/ Revoking(r) \/ Leaving(r) \/ Entering(r) \/ Resetting(r)
               \/ FailWithoutAccount(r) \/ Interrupt(r)
      PROVE  SessionInv'
  <2>1. CASE Visiting(r)
    BY <2>1, VisitingKeepsInv, ArrivingKeepsInv DEF Visiting
  <2>2. CASE Revoking(r) \/ Leaving(r) \/ FailWithoutAccount(r) \/ Interrupt(r)
    BY <2>2, RevokingKeepsInv, LeavingKeepsInv, StoppingKeepsInv
  <2>3. CASE Entering(r)
    BY <2>3, ArrivingKeepsInv, OpeningKeepsInv, ChangingKeepsInv DEF Entering
  <2>4. CASE Resetting(r)
    BY <2>4, ResettingKeepsInv, ArrivingKeepsInv DEF Resetting
  <2> QED
    BY <1>1, <2>1, <2>2, <2>3, <2>4
<1>2. CASE UNCHANGED svars
  BY <1>2 DEF svars, account_, session_, ghosts, SessionInv, SessionTypeOK, KeysWereMade,
     EndedHaveNoRow, LiveRowsAreListed, Ending, HashesWereProved, LockedTokensAreFresh, At
<1> QED
  BY <1>1, <1>2, WaitingKeepsInv DEF SessionsNext, Rest

(* The invariant holds of every reachable state. *)
THEOREM SessionInvariant == SessionsSpec => []SessionInv
  BY InitEstablishesSessionInv, NextKeepsSessionInv, PTL DEF SessionsSpec

(* A session that was ended never authenticates a request again. *)
THEOREM EndedStayOut == SessionsSpec => []EndedSessionsStayOut
<1>1. SessionInv => EndedSessionsStayOut
  BY DEF SessionInv, EndedHaveNoRow, EndedSessionsStayOut, RequestAuthenticates, SocketAuthenticates
<1> QED
  BY <1>1, SessionInvariant, PTL

(* What authenticates can be seen and revoked. *)
THEOREM LiveAreListed == SessionsSpec => []LiveSessionsAreListed
<1>1. SessionInv => LiveSessionsAreListed
  BY DEF SessionInv, LiveRowsAreListed, Ending, LiveSessionsAreListed, RequestAuthenticates
<1> QED
  BY <1>1, SessionInvariant, PTL

(* No session outlives the password it was opened with. *)
THEOREM PasswordIsFollowed == SessionsSpec => []SessionsFollowThePassword
<1>1. SessionInv => SessionsFollowThePassword
  BY DEF SessionInv, SessionTypeOK, HashesWereProved, Versions, SessionsFollowThePassword,
     RequestAuthenticates
<1> QED
  BY <1>1, SessionInvariant, PTL

(* A reset token sets one password. *)
THEOREM TokensAreSpent == SessionsSpec => []TokensWorkOnce
<1>1. SessionInv => TokensWorkOnce
  BY DEF SessionInv, LockedTokensAreFresh, TokensWorkOnce
<1> QED
  BY <1>1, SessionInvariant, PTL

=============================================================================
