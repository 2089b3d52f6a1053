--------------------------- MODULE SessionsProofs ---------------------------
(***************************************************************************)
(* Theorems about the sessions of an account, for every number of tabs,    *)
(* browsers, tokens and reset links: no refresh token is exchanged twice,  *)
(* a family that ended cannot be used again, and a deleted account gets no *)
(* token but those already on their way.                                   *)
(***************************************************************************)
EXTENDS Sessions, FiniteSetTheorems, TLAPS

Holds(t) == call[t].at \in {"claimed", "allowed"}

(* Tokens are numbered in the order of their inserts.                      *)
Numbered == \E k \in 0..MaxTokens : Issued = 1..k

(* A call that claimed a token is alone with it, and nobody has exchanged  *)
(* it; what was exchanged is used.                                         *)
Exclusive ==
    /\ \A t \in Tab :
         /\ call[t].at \in {"refreshing", "claimed", "allowed"} => call[t].tok \in Issued
         /\ Holds(t) => /\ tokens[call[t].tok].used
                        /\ \A m \in Issued : tokens[m].from # call[t].tok
    /\ \A t, u \in Tab :
         t # u /\ Holds(t) /\ Holds(u) => call[t].tok # call[u].tok
    /\ \A m \in Issued : tokens[m].from # 0 =>
         tokens[m].from \in Issued /\ tokens[tokens[m].from].used

(* A family that ended is revoked as a whole, and no call holds one of it. *)
EndedRevoked ==
    \A n \in Issued : tokens[n].family \in ended => tokens[n].revoked /\ ~Locked(n)

EndedIssued == ended \subseteq Issued

SessionsInv ==
    /\ SessionsTypeOK /\ Numbered /\ OneSuccessor
    /\ Exclusive /\ EndedRevoked /\ EndedIssued

TokenRecord == [family : 0..MaxTokens, from : 0..MaxTokens,
                used : BOOLEAN, revoked : BOOLEAN]

CallRecord == [at : CallAt, tok : Issued \cup {0}, made : Issued \cup {0},
               rows : SUBSET Issued, link : Link \cup {0}]

LEMMA SessionsInitInv == SessionsInit => SessionsInv
<1> SUFFICES ASSUME SessionsInit PROVE SessionsInv
  OBVIOUS
<1>1. Issued = {} /\ 0 \in 0..MaxTokens
  BY SessionsAssumption DEF SessionsInit, Issued, Unissued
<1>2. Numbered
  <2>1. Issued = 1..0
    BY <1>1
  <2> QED BY <1>1, <2>1 DEF Numbered
<1>3. SessionsTypeOK
  <2>1. Unissued \in TokenRecord /\ Quiet \in CallRecord
    BY <1>1, SessionsAssumption
       DEF Unissued, TokenRecord, Quiet, CallRecord, CallAt
  <2>2. \A n \in TokenNo : tokens[n].family <= n
    BY SessionsAssumption DEF SessionsInit, Unissued, TokenNo
  <2> QED BY <1>1, <2>1, <2>2
          DEF SessionsInit, SessionsTypeOK, TokenRecord, CallRecord
<1> QED BY <1>1, <1>2, <1>3
        DEF SessionsInit, SessionsInv, OneSuccessor, Exclusive, EndedRevoked,
            EndedIssued, Quiet, Holds

(* A step that leaves the tokens alone and claims none keeps what is known *)
(* of them.                                                                *)
LEMMA TokensKept ==
    ASSUME SessionsInv, tokens' = tokens, ended' = ended,
           SessionsTypeOK',
           \A t \in Tab :
             /\ call'[t].at \in {"refreshing", "claimed", "allowed"} =>
                  call'[t].tok \in Issued
             /\ Holds(t)' => Holds(t) /\ call'[t].tok = call[t].tok
    PROVE  SessionsInv'
<1>1. Issued' = Issued
  BY DEF Issued
<1>2. Numbered' /\ OneSuccessor' /\ EndedIssued'
  BY <1>1 DEF SessionsInv, Numbered, OneSuccessor, EndedIssued
<1>3. Exclusive'
  BY <1>1 DEF SessionsInv, Exclusive
<1>4. \A n \in Issued : Locked(n)' => Locked(n)
  BY DEF Locked, Holds
<1>5. EndedRevoked'
  BY <1>1, <1>4 DEF SessionsInv, EndedRevoked
<1> QED BY <1>2, <1>3, <1>5 DEF SessionsInv

(* What most steps do: one call goes on.                                   *)
LEMMA CallGoesOn ==
    ASSUME SessionsInv, NEW t \in Tab, NEW c \in CallRecord,
           call' = [call EXCEPT ![t] = c], tokens' = tokens, ended' = ended,
           jar' \in [Browser -> Issued \cup {0}], deleted' \in BOOLEAN,
           links' \in [Link -> {"unsent", "sent", "spent"}],
           c.at \in {"refreshing", "claimed", "allowed"} => c.tok \in Issued,
           c.at \in {"claimed", "allowed"} => Holds(t) /\ c.tok = call[t].tok
    PROVE  SessionsInv'
<1>1. Issued' = Issued /\ call \in [Tab -> CallRecord]
  BY DEF Issued, SessionsInv, SessionsTypeOK, CallRecord
<1>2. call' \in [Tab -> CallRecord] /\ call'[t] = c
      /\ \A u \in Tab \ {t} : call'[u] = call[u]
  BY <1>1
<1>3. SessionsTypeOK'
  BY <1>1, <1>2 DEF SessionsInv, SessionsTypeOK, CallRecord
<1>4. \A u \in Tab :
        /\ call'[u].at \in {"refreshing", "claimed", "allowed"} =>
             call'[u].tok \in Issued
        /\ Holds(u)' => Holds(u) /\ call'[u].tok = call[u].tok
  BY <1>2 DEF SessionsInv, Exclusive, Holds
<1> QED BY <1>3, <1>4, TokensKept

QuietStep(t) ==
    \/ Login(t) \/ Refresh(t) \/ DetectReuse(t) \/ CheckUser(t) \/ Logout(t)
    \/ DeleteAccount(t) \/ RevokeAfterReset(t) \/ Reply(t) \/ LoseReply(t)
    \/ \E k \in Link : RedeemLink(t, k)

LEMMA QuietStepInv ==
    ASSUME SessionsInv, NEW t \in Tab, QuietStep(t)
    PROVE  SessionsInv'
<1>1. /\ call[t] \in CallRecord /\ HomeOf[t] \in Browser
      /\ jar \in [Browser -> Issued \cup {0}] /\ deleted \in BOOLEAN
      /\ links \in [Link -> {"unsent", "sent", "spent"}]
      /\ \A f : Family(f) \in SUBSET Issued
  BY SessionsAssumption DEF SessionsInv, SessionsTypeOK, CallRecord, Family
<1>2. Quiet \in CallRecord /\ Quiet.at = "quiet"
  BY DEF Quiet, CallRecord, CallAt
<1>3. CASE Reply(t) \/ LoseReply(t)
  <2>1. /\ call' = [call EXCEPT ![t] = Quiet]
        /\ UNCHANGED <<tokens, ended, deleted, links>>
    BY <1>3 DEF Reply, LoseReply
  <2>2. jar' \in [Browser -> Issued \cup {0}]
    <3>1. call[t].made \in Issued \cup {0}
      BY <1>1 DEF CallRecord
    <3> QED BY <1>1, <1>3, <3>1 DEF Reply, LoseReply
  <2> QED BY <1>1, <1>2, <2>1, <2>2, CallGoesOn
<1>4. CASE ~(Reply(t) \/ LoseReply(t))
  <2>1. UNCHANGED <<tokens, ended, deleted, links, jar>>
    BY <1>4 DEF QuietStep, Login, Refresh, DetectReuse, CheckUser, Logout,
                DeleteAccount, RevokeAfterReset, RedeemLink
  <2>2. CASE Login(t)
    <3> DEFINE c == [Quiet EXCEPT !.at = "verified"]
    <3>1. call' = [call EXCEPT ![t] = c]
      BY <2>2 DEF Login
    <3>2. c \in CallRecord /\ c.at = "verified"
      BY <1>2 DEF CallRecord, CallAt
    <3> HIDE DEF c
    <3> QED BY <1>1, <2>1, <3>1, <3>2, CallGoesOn
  <2>3. CASE DeleteAccount(t)
    <3> DEFINE c == [Quiet EXCEPT !.at = "delete", !.rows = Issued]
    <3>1. call' = [call EXCEPT ![t] = c]
      BY <2>3 DEF DeleteAccount
    <3>2. c \in CallRecord /\ c.at = "delete"
      BY <1>2 DEF CallRecord, CallAt
    <3> HIDE DEF c
    <3> QED BY <1>1, <2>1, <3>1, <3>2, CallGoesOn
  <2>4. ASSUME NEW k \in Link, RedeemLink(t, k) PROVE SessionsInv'
    <3> DEFINE c == [Quiet EXCEPT !.at = "redeeming", !.link = k]
    <3>1. call' = [call EXCEPT ![t] = c]
      BY <2>4 DEF RedeemLink
    <3>2. c \in CallRecord /\ c.at = "redeeming"
      BY <1>2 DEF CallRecord, CallAt
    <3> HIDE DEF c
    <3> QED BY <1>1, <2>1, <3>1, <3>2, CallGoesOn
  <2>5. CASE Refresh(t)
    <3> DEFINE c == [Quiet EXCEPT !.at = "refreshing", !.tok = jar[HomeOf[t]]]
    <3>1. call' = [call EXCEPT ![t] = c] /\ jar[HomeOf[t]] \in Issued
      BY <1>1, <2>5 DEF Refresh
    <3>2. c \in CallRecord /\ c.at = "refreshing" /\ c.tok \in Issued
      BY <1>2, <3>1 DEF CallRecord, CallAt
    <3> HIDE DEF c
    <3> QED BY <1>1, <2>1, <3>1, <3>2, CallGoesOn
  <2>6. CASE Logout(t)
    <3> DEFINE c == [Quiet EXCEPT !.at = "logout", !.tok = jar[HomeOf[t]],
                                  !.rows = Family(tokens[jar[HomeOf[t]]].family)]
    <3>1. call' = [call EXCEPT ![t] = c] /\ jar[HomeOf[t]] \in Issued
      BY <1>1, <2>6 DEF Logout
    <3>2. c \in CallRecord /\ c.at = "logout"
      BY <1>1, <1>2, <3>1 DEF CallRecord, CallAt
    <3> HIDE DEF c
    <3> QED BY <1>1, <2>1, <3>1, <3>2, CallGoesOn
  <2>7. CASE DetectReuse(t)
    <3> DEFINE c == [call[t] EXCEPT !.at = "reuse",
                                    !.rows = Family(tokens[call[t].tok].family)]
    <3>1. call' = [call EXCEPT ![t] = c]
      BY <1>1, <2>7 DEF DetectReuse, SessionsInv, SessionsTypeOK
    <3>2. c \in CallRecord /\ c.at = "reuse"
      BY <1>1 DEF CallRecord, CallAt
    <3> HIDE DEF c
    <3> QED BY <1>1, <2>1, <3>1, <3>2, CallGoesOn
  <2>8. CASE RevokeAfterReset(t)
    <3> DEFINE c == [call[t] EXCEPT !.at = "reset", !.rows = Issued]
    <3>1. call' = [call EXCEPT ![t] = c]
      BY <1>1, <2>8 DEF RevokeAfterReset, SessionsInv, SessionsTypeOK
    <3>2. c \in CallRecord /\ c.at = "reset"
      BY <1>1 DEF CallRecord, CallAt
    <3> HIDE DEF c
    <3> QED BY <1>1, <2>1, <3>1, <3>2, CallGoesOn
  <2>9. CASE CheckUser(t)
    <3> DEFINE c == [call[t] EXCEPT !.at = "allowed"]
    <3>1. call' = [call EXCEPT ![t] = c] /\ Holds(t)
      BY <2>9 DEF CheckUser, StepTo, Holds
    <3>2. c \in CallRecord /\ c.at = "allowed" /\ c.tok = call[t].tok
      BY <1>1 DEF CallRecord, CallAt
    <3>3. c.tok \in Issued
      BY <3>1, <3>2 DEF SessionsInv, Exclusive, Holds
    <3> HIDE DEF c
    <3> QED BY <1>1, <2>1, <3>1, <3>2, <3>3, CallGoesOn
  <2> QED BY <1>4, <2>2, <2>3, <2>4, <2>5, <2>6, <2>7, <2>8, <2>9 DEF QuietStep
<1> QED BY <1>3, <1>4

LEMMA LinkStepInv ==
    ASSUME SessionsInv, RequestReset \/ \E k \in Link : LinkExpires(k)
    PROVE  SessionsInv'
<1>1. /\ UNCHANGED <<tokens, jar, call, deleted, ended>>
      /\ links' \in [Link -> {"unsent", "sent", "spent"}]
  BY DEF RequestReset, LinkExpires, SessionsInv, SessionsTypeOK
<1>2. SessionsTypeOK' /\ Issued' = Issued
  BY <1>1 DEF SessionsInv, SessionsTypeOK, Issued
<1> QED BY <1>1, <1>2, TokensKept DEF SessionsInv, Exclusive, Holds

(* A step that changes only the two flags of tokens, and lets one call go  *)
(* on, keeps the types and the numbering.                                  *)
FlagsOnly(t, at) ==
    /\ call' = [call EXCEPT ![t].at = at]
    /\ tokens' \in [TokenNo -> TokenRecord]
    /\ \A n \in TokenNo : /\ tokens'[n].family = tokens[n].family
                          /\ tokens'[n].from = tokens[n].from
    /\ jar' = jar /\ deleted' \in BOOLEAN
    /\ links' \in [Link -> {"unsent", "sent", "spent"}]

OneCallAt(t, at) ==
    /\ call'[t].at = at /\ call'[t].tok = call[t].tok
    /\ \A u \in Tab \ {t} : call'[u] = call[u]

LEMMA FlagsType ==
    ASSUME SessionsInv, NEW t \in Tab, NEW at \in CallAt, FlagsOnly(t, at)
    PROVE  /\ SessionsTypeOK' /\ Numbered' /\ OneSuccessor' /\ Issued' = Issued
           /\ OneCallAt(t, at)
<1> USE DEF FlagsOnly
<1>1. Issued' = Issued
  BY DEF Issued
<1>2. call' \in [Tab -> CallRecord] /\ call'[t].at = at
      /\ call'[t].tok = call[t].tok /\ \A u \in Tab \ {t} : call'[u] = call[u]
  <2>1. call \in [Tab -> CallRecord]
    BY DEF SessionsInv, SessionsTypeOK, CallRecord
  <2> DEFINE c == [call[t] EXCEPT !.at = at]
  <2>2. c \in CallRecord /\ c.at = at /\ c.tok = call[t].tok
    BY <2>1 DEF CallRecord
  <2>3. call' = [call EXCEPT ![t] = c]
    BY <2>1
  <2> HIDE DEF c
  <2> QED BY <2>1, <2>2, <2>3
<1>3. SessionsTypeOK'
  BY <1>1, <1>2 DEF SessionsInv, SessionsTypeOK, CallRecord, TokenRecord, TokenNo
<1>4. Numbered' /\ OneSuccessor'
  BY <1>1 DEF SessionsInv, Numbered, OneSuccessor, Issued
<1> QED BY <1>1, <1>2, <1>3, <1>4 DEF OneCallAt

LEMMA IssuedTokens == \A n \in Issued : n \in TokenNo
  BY DEF Issued

(* The claim of a token.                                                   *)
LEMMA ClaimTokenInv ==
    ASSUME SessionsInv, NEW t \in Tab, ClaimToken(t)
    PROVE  SessionsInv'
<1> DEFINE n == call[t].tok
<1>1. /\ n \in Issued /\ call[t].at = "refreshing" /\ n \in TokenNo
      /\ ~tokens[n].used /\ ~tokens[n].revoked /\ ~Locked(n)
  BY DEF ClaimToken, Claimable, SessionsInv, Exclusive, Issued
<1>2. /\ tokens' \in [TokenNo -> TokenRecord]
      /\ \A m \in TokenNo : /\ tokens'[m].family = tokens[m].family
                             /\ tokens'[m].from = tokens[m].from
                             /\ tokens'[m].revoked = tokens[m].revoked
  <2>1. tokens \in [TokenNo -> TokenRecord]
    BY DEF SessionsInv, SessionsTypeOK, TokenRecord
  <2> DEFINE r == [tokens[n] EXCEPT !.used = TRUE]
  <2>2. /\ r \in TokenRecord /\ r.family = tokens[n].family
        /\ r.from = tokens[n].from /\ r.revoked = tokens[n].revoked
    BY <1>1, <2>1 DEF TokenRecord
  <2>3. tokens' = [tokens EXCEPT ![n] = r]
    BY <2>1, <1>1 DEF ClaimToken
  <2> HIDE DEF r, n
  <2> QED BY <1>1, <2>1, <2>2, <2>3
<1>0. \A m \in TokenNo : tokens[m].used \/ m = n => tokens'[m].used
  <2>1. tokens \in [TokenNo -> TokenRecord]
    BY DEF SessionsInv, SessionsTypeOK, TokenRecord
  <2> DEFINE r == [tokens[n] EXCEPT !.used = TRUE]
  <2>2. r.used
    BY <1>1, <2>1 DEF TokenRecord
  <2>3. tokens' = [tokens EXCEPT ![n] = r]
    BY <2>1, <1>1 DEF ClaimToken
  <2> HIDE DEF r, n
  <2> QED BY <1>1, <2>1, <2>2, <2>3
<1>3. /\ call' = [call EXCEPT ![t].at = "claimed"] /\ "claimed" \in CallAt
      /\ jar' = jar /\ ended' = ended /\ deleted' \in BOOLEAN
      /\ links' \in [Link -> {"unsent", "sent", "spent"}]
  BY DEF ClaimToken, StepTo, CallAt, SessionsInv, SessionsTypeOK
<1>4. /\ SessionsTypeOK' /\ Numbered' /\ OneSuccessor' /\ Issued' = Issued
      /\ call'[t].at = "claimed" /\ call'[t].tok = n
      /\ \A u \in Tab \ {t} : call'[u] = call[u]
  <2>1. FlagsOnly(t, "claimed")
    BY <1>2, <1>3 DEF FlagsOnly
  <2> QED BY <1>3, <2>1, FlagsType DEF OneCallAt
<1> HIDE DEF n
<1>5. \A m \in Issued : m \in TokenNo /\ tokens[m].from # n
  <2>1. n # 0
    BY <1>1, SessionsAssumption DEF TokenNo
  <2> QED BY <1>1, <2>1, IssuedTokens DEF SessionsInv, Exclusive
<1>6. \A u \in Tab \ {t} : Holds(u) => call[u].tok # n
  BY <1>1 DEF Locked, Holds
<1>7. Exclusive'
  <2>1. \A u \in Tab :
          call'[u].at \in {"refreshing", "claimed", "allowed"} => call'[u].tok \in Issued
    BY <1>0, <1>1, <1>2, <1>4, <1>5, <1>6 DEF SessionsInv, Exclusive
  <2>2. ASSUME NEW u \in Tab, Holds(u)'
        PROVE  /\ tokens'[call'[u].tok].used
               /\ \A m \in Issued : tokens'[m].from # call'[u].tok
    BY <1>0, <1>1, <1>2, <1>4, <1>5, <1>6, IssuedTokens, <2>1, <2>2 DEF SessionsInv, Exclusive, Holds
  <2>3. \A u, v \in Tab :
          u # v /\ Holds(u)' /\ Holds(v)' => call'[u].tok # call'[v].tok
    BY <1>0, <1>1, <1>2, <1>4, <1>5, <1>6 DEF SessionsInv, Exclusive, Holds
  <2>4. \A m \in Issued : tokens'[m].from # 0 =>
          tokens'[m].from \in Issued /\ tokens'[tokens'[m].from].used
    BY <1>0, <1>1, <1>2, <1>4, <1>5, <1>6, IssuedTokens DEF SessionsInv, Exclusive
  <2> QED BY <1>4, <2>1, <2>2, <2>3, <2>4 DEF Exclusive
<1>8. EndedRevoked'
  <2>1. tokens[n].family \notin ended
    BY <1>1 DEF SessionsInv, EndedRevoked
  <2>2. \A m \in Issued : m # n /\ Locked(m)' => Locked(m)
    BY <1>4 DEF Locked
  <2> QED BY <1>2, <1>3, <1>4, <1>5, <2>1, <2>2 DEF SessionsInv, EndedRevoked
<1>9. EndedIssued'
  BY <1>3, <1>4 DEF SessionsInv, EndedIssued
<1> QED BY <1>4, <1>7, <1>8, <1>9 DEF SessionsInv

(* The claim is rolled back: nobody had exchanged the token.               *)
LEMMA RefuseUserInv ==
    ASSUME SessionsInv, NEW t \in Tab, RefuseUser(t)
    PROVE  SessionsInv'
<1> DEFINE n == call[t].tok
<1>1. /\ n \in Issued /\ n \in TokenNo /\ Holds(t)
      /\ \A m \in Issued : tokens[m].from # n
      /\ \A u \in Tab \ {t} : Holds(u) => call[u].tok # n
  BY DEF RefuseUser, Holds, SessionsInv, Exclusive, Issued
<1>2. /\ tokens' \in [TokenNo -> TokenRecord]
      /\ \A m \in TokenNo : /\ tokens'[m].family = tokens[m].family
                             /\ tokens'[m].from = tokens[m].from
                             /\ tokens'[m].revoked = tokens[m].revoked
  <2>1. tokens \in [TokenNo -> TokenRecord]
    BY DEF SessionsInv, SessionsTypeOK, TokenRecord
  <2> DEFINE r == [tokens[n] EXCEPT !.used = FALSE]
  <2>2. /\ r \in TokenRecord /\ r.family = tokens[n].family
        /\ r.from = tokens[n].from /\ r.revoked = tokens[n].revoked
    BY <1>1, <2>1 DEF TokenRecord
  <2>3. tokens' = [tokens EXCEPT ![n] = r]
    BY <2>1, <1>1 DEF RefuseUser
  <2> HIDE DEF r, n
  <2> QED BY <1>1, <2>1, <2>2, <2>3
<1>0. \A m \in TokenNo : tokens[m].used /\ m # n => tokens'[m].used
  BY DEF RefuseUser, SessionsInv, SessionsTypeOK
<1>3. /\ call' = [call EXCEPT ![t].at = "failed"] /\ "failed" \in CallAt
      /\ jar' = jar /\ ended' = ended /\ deleted' \in BOOLEAN
      /\ links' \in [Link -> {"unsent", "sent", "spent"}]
  BY DEF RefuseUser, StepTo, CallAt, SessionsInv, SessionsTypeOK
<1> HIDE DEF n
<1>4. /\ SessionsTypeOK' /\ Numbered' /\ OneSuccessor' /\ Issued' = Issued
      /\ call'[t].at = "failed" /\ \A u \in Tab \ {t} : call'[u] = call[u]
  <2>1. FlagsOnly(t, "failed")
    BY <1>2, <1>3 DEF FlagsOnly
  <2> QED BY <1>3, <2>1, FlagsType DEF OneCallAt
<1>5. Exclusive'
  <2>1. \A u \in Tab :
          call'[u].at \in {"refreshing", "claimed", "allowed"} => call'[u].tok \in Issued
    BY <1>1, <1>2, <1>4 DEF SessionsInv, Exclusive
  <2>2. ASSUME NEW u \in Tab, Holds(u)'
        PROVE  /\ tokens'[call'[u].tok].used
               /\ \A m \in Issued : tokens'[m].from # call'[u].tok
    BY <1>0, <1>1, <1>2, <1>4, IssuedTokens, <2>1, <2>2 DEF SessionsInv, Exclusive, Holds
  <2>3. \A u, v \in Tab :
          u # v /\ Holds(u)' /\ Holds(v)' => call'[u].tok # call'[v].tok
    BY <1>1, <1>2, <1>4 DEF SessionsInv, Exclusive, Holds
  <2>4. \A m \in Issued : tokens'[m].from # 0 =>
          tokens'[m].from \in Issued /\ tokens'[tokens'[m].from].used
    BY <1>0, <1>1, <1>2, <1>4, IssuedTokens DEF SessionsInv, Exclusive
  <2> QED BY <1>4, <2>1, <2>2, <2>3, <2>4 DEF Exclusive
<1>6. \A m \in Issued : Locked(m)' => Locked(m)
  BY <1>4 DEF Locked
<1>7. EndedRevoked' /\ EndedIssued'
  BY <1>2, <1>3, <1>4, <1>6, IssuedTokens DEF SessionsInv, EndedRevoked, EndedIssued
<1> QED BY <1>4, <1>5, <1>7 DEF SessionsInv

(* The commit of a statement that revokes many rows.                       *)
LEMMA SweepCommitInv ==
    ASSUME SessionsInv, NEW t \in Tab, SweepCommit(t)
    PROVE  SessionsInv'
<1> DEFINE rows == call[t].rows
           at == IF call[t].at = "reuse" THEN "failed" ELSE "signedOut"
           over == {f \in TokenNo : Family(f) # {} /\ Family(f) \subseteq rows}
<1>1. /\ call[t].at \in Sweeping /\ \A n \in rows : ~Locked(n)
      /\ tokens' = [n \in TokenNo |-> IF n \in rows
              THEN [tokens[n] EXCEPT !.revoked = TRUE] ELSE tokens[n]]
      /\ ended' = ended \cup over /\ jar' = jar
      /\ call' = [call EXCEPT ![t].at = at] /\ at \in CallAt
      /\ at \in {"failed", "signedOut"}
  BY DEF SweepCommit, StepTo, Revoked, CallAt
<1>2. /\ deleted' \in BOOLEAN
      /\ links' \in [Link -> {"unsent", "sent", "spent"}]
  <2>1. deleted' = (deleted \/ call[t].at = "delete") /\ deleted \in BOOLEAN
    BY DEF SweepCommit, SessionsInv, SessionsTypeOK
  <2>2. links \in [Link -> {"unsent", "sent", "spent"}]
    BY DEF SessionsInv, SessionsTypeOK
  <2> QED BY <2>1, <2>2 DEF SweepCommit
<1> HIDE DEF at
<1>3. /\ tokens' \in [TokenNo -> TokenRecord]
      /\ \A m \in TokenNo : /\ tokens'[m].family = tokens[m].family
                             /\ tokens'[m].from = tokens[m].from
                             /\ tokens'[m].used = tokens[m].used
                             /\ (tokens[m].revoked => tokens'[m].revoked)
                             /\ (m \in rows => tokens'[m].revoked)
  <2>1. tokens \in [TokenNo -> TokenRecord]
    BY DEF SessionsInv, SessionsTypeOK, TokenRecord
  <2>2. ASSUME NEW m \in TokenNo
        PROVE  LET r == [tokens[m] EXCEPT !.revoked = TRUE]
               IN  /\ r \in TokenRecord /\ r.family = tokens[m].family /\ r.revoked
                   /\ r.from = tokens[m].from /\ r.used = tokens[m].used
    BY <2>1 DEF TokenRecord
  <2> QED BY <1>1, <2>1, <2>2
<1>4. /\ SessionsTypeOK' /\ Numbered' /\ OneSuccessor' /\ Issued' = Issued
      /\ call'[t].at = at /\ \A u \in Tab \ {t} : call'[u] = call[u]
  <2>1. FlagsOnly(t, at)
    BY <1>1, <1>2, <1>3 DEF FlagsOnly
  <2> QED BY <1>1, <2>1, FlagsType DEF OneCallAt
<1>5. \A u \in Tab : /\ Holds(u)' => Holds(u) /\ call'[u].tok = call[u].tok
                     /\ call'[u].at \in {"refreshing", "claimed", "allowed"} =>
                          call'[u] = call[u]
  BY <1>1, <1>4 DEF Holds
<1>6. Exclusive'
  <2>1. \A u \in Tab :
          call'[u].at \in {"refreshing", "claimed", "allowed"} => call'[u].tok \in Issued
    BY <1>1, <1>3, <1>4, <1>5 DEF SessionsInv, Exclusive
  <2>2. ASSUME NEW u \in Tab, Holds(u)'
        PROVE  /\ tokens'[call'[u].tok].used
               /\ \A m \in Issued : tokens'[m].from # call'[u].tok
    BY <1>1, <1>3, <1>4, <1>5, IssuedTokens, <2>1, <2>2 DEF SessionsInv, Exclusive, Holds
  <2>3. \A u, v \in Tab :
          u # v /\ Holds(u)' /\ Holds(v)' => call'[u].tok # call'[v].tok
    BY <1>1, <1>3, <1>4, <1>5 DEF SessionsInv, Exclusive, Holds
  <2>4. \A m \in Issued : tokens'[m].from # 0 =>
          tokens'[m].from \in Issued /\ tokens'[tokens'[m].from].used
    BY <1>1, <1>3, <1>4, <1>5, IssuedTokens DEF SessionsInv, Exclusive
  <2> QED BY <1>4, <2>1, <2>2, <2>3, <2>4 DEF Exclusive
<1>7. \A m \in Issued : Locked(m)' => Locked(m)
  BY <1>5 DEF Locked, Holds
<1>8. EndedRevoked'
  <2>1. \A n \in Issued : tokens[n].family \in over => n \in rows
    BY DEF Family
  <2> HIDE DEF over, rows
  <2> QED BY <1>1, <1>3, <1>4, <1>7, <2>1, IssuedTokens DEF SessionsInv, EndedRevoked
<1>9. EndedIssued'
  <2>1. PICK k \in 0..MaxTokens : Issued = 1..k
    BY DEF SessionsInv, Numbered
  <2>2. ASSUME NEW f \in over PROVE f \in Issued
    <3>1. PICK n \in Issued : tokens[n].family = f
      BY DEF Family
    <3>2. f <= n /\ f \in Nat /\ f >= 1
      BY <3>1, SessionsAssumption DEF SessionsInv, SessionsTypeOK, Issued, TokenNo
    <3> QED BY <2>1, <3>1, <3>2, SessionsAssumption
  <2> QED BY <1>1, <1>4, <2>2 DEF SessionsInv, EndedIssued
<1> QED BY <1>4, <1>6, <1>8, <1>9 DEF SessionsInv

(* The insert of a token: the first of a new family, or the successor of   *)
(* the token its call claimed.                                             *)
Insertable(t, f, parent) ==
    \/ call[t].at = "verified" /\ f = 0 /\ parent = 0
    \/ call[t].at = "allowed" /\ f = tokens[parent].family /\ parent = call[t].tok

LEMMA InsertInv ==
    ASSUME SessionsInv, NEW t \in Tab, NEW f, NEW parent,
           Insertable(t, f, parent), Insert(t, f, parent),
           UNCHANGED <<jar, deleted, links, ended>>
    PROVE  SessionsInv'
<1>1. PICK k \in 0..MaxTokens : Issued = 1..k
  BY DEF SessionsInv, Numbered
<1> DEFINE n == k + 1
           r == [Unissued EXCEPT !.family = IF f = 0 THEN n ELSE f, !.from = parent]
           c == [call[t] EXCEPT !.at = "signedIn", !.made = n]
<1>2. Cardinality(Issued) + 1 = n
  <2>1. Cardinality(1..k) = IF 1 > k THEN 0 ELSE k - 1 + 1
    BY FS_Interval, <1>1, SessionsAssumption
  <2> QED BY <1>1, <2>1, SessionsAssumption
<1>3. /\ n \in TokenNo /\ n \notin Issued
      /\ tokens \in [TokenNo -> TokenRecord] /\ call \in [Tab -> CallRecord]
  BY <1>1, <1>2, SessionsAssumption
     DEF Insert, SessionsInv, SessionsTypeOK, TokenRecord, CallRecord
<1>4. /\ tokens' = [tokens EXCEPT ![n] = r] /\ call' = [call EXCEPT ![t] = c]
  BY <1>2, <1>3 DEF Insert
<1>5. /\ parent \in Issued \cup {0}
      /\ parent # 0 => /\ Holds(t) /\ parent = call[t].tok /\ tokens[parent].used
                       /\ \A m \in Issued : tokens[m].from # parent
                       /\ tokens[parent].family \notin ended
                       /\ f = tokens[parent].family /\ f # 0
      /\ parent = 0 => f = 0
  <2>1. CASE call[t].at = "verified" /\ f = 0 /\ parent = 0
    BY <2>1
  <2>2. CASE /\ call[t].at = "allowed" /\ parent = call[t].tok
             /\ f = tokens[parent].family
    <3>1. /\ parent \in Issued /\ Holds(t) /\ tokens[parent].used
          /\ \A m \in Issued : tokens[m].from # parent
      BY <2>2 DEF SessionsInv, Exclusive, Holds
    <3>2. Locked(parent) /\ parent # 0
      BY <2>2, <3>1, <1>1, SessionsAssumption DEF Locked
    <3>3. tokens[parent].family \notin ended
      BY <3>1, <3>2 DEF SessionsInv, EndedRevoked
    <3>4. tokens[parent].family # 0
      BY <3>1 DEF Issued
    <3> QED BY <2>2, <3>1, <3>2, <3>3, <3>4
  <2> QED BY <2>1, <2>2 DEF Insertable
<1>6. /\ r \in TokenRecord /\ r.from = parent /\ r.family # 0 /\ r.family <= n
      /\ r.family \notin ended
  <2>1. /\ Unissued \in TokenRecord /\ n \in 0..MaxTokens /\ n # 0
    BY <1>3, SessionsAssumption DEF Unissued, TokenRecord, TokenNo
  <2>2. parent \in 0..MaxTokens
    BY <1>1, <1>5, SessionsAssumption
  <2>3. r.family = IF f = 0 THEN n ELSE f
    BY DEF Unissued
  <2>4. CASE f = 0
    <3>1. n \notin ended
      BY <1>3 DEF SessionsInv, EndedIssued
    <3>2. r.family = n /\ r.from = parent /\ n <= n
      BY <1>1, <2>3, <2>4, SessionsAssumption DEF Unissued
    <3>3. r \in TokenRecord
      BY <2>1, <2>2, <2>3, <2>4 DEF Unissued, TokenRecord
    <3> QED BY <2>1, <3>1, <3>2, <3>3
  <2>5. CASE f # 0
    <3>1. /\ parent \in Issued /\ f = tokens[parent].family /\ f \notin ended
      BY <1>5, <2>5
    <3>2. parent \in TokenNo /\ f \in 0..MaxTokens /\ f <= parent /\ parent <= k
      BY <3>1, <1>1, <1>3, SessionsAssumption
         DEF SessionsInv, SessionsTypeOK, Issued, TokenRecord
    <3>3. f <= n
      BY <3>2, <1>1, SessionsAssumption DEF TokenNo
    <3> QED BY <2>1, <2>2, <2>3, <2>5, <3>1, <3>2, <3>3
            DEF Unissued, TokenRecord
  <2> QED BY <2>4, <2>5
<1>7. c \in [at : CallAt, tok : Issued \cup {0}, made : Issued \cup {0, n},
             rows : SUBSET Issued, link : Link \cup {0}]
      /\ c.at = "signedIn"
  BY <1>3 DEF CallRecord, CallAt
<1> HIDE DEF r, c, n
<1>8. /\ tokens'[n] = r /\ tokens' \in [TokenNo -> TokenRecord]
      /\ \A m \in Issued : m \in TokenNo /\ m # n /\ tokens'[m] = tokens[m]
      /\ \A m \in TokenNo \ {n} : tokens'[m] = tokens[m]
      /\ call'[t] = c /\ \A u \in Tab \ {t} : call'[u] = call[u]
  BY <1>3, <1>4, <1>6, IssuedTokens
<1>9. Issued' = Issued \cup {n}
  BY <1>3, <1>6, <1>8 DEF Issued
<1>10. Numbered'
  <2>1. Issued' = 1..n /\ n \in 0..MaxTokens
    BY <1>1, <1>3, <1>9, SessionsAssumption DEF n, TokenNo
  <2> QED BY <2>1 DEF Numbered
<1>11. SessionsTypeOK'
  <2>1. \A m \in TokenNo : tokens'[m].family <= m /\ (m \in Issued' => tokens'[m].from < m)
    <3>1. parent < n
      BY <1>1, <1>5, SessionsAssumption DEF n
    <3>2. tokens'[n].family <= n /\ tokens'[n].from < n
      BY <1>6, <1>8, <3>1
    <3>3. ASSUME NEW m \in TokenNo \ {n}
          PROVE  tokens'[m].family <= m /\ (m \in Issued' => tokens'[m].from < m)
      BY <1>8, <1>9 DEF SessionsInv, SessionsTypeOK
    <3> QED BY <3>2, <3>3
  <2>2. call' \in [Tab -> CallRecord']
    <3>1. \A u \in Tab : call'[u] \in CallRecord'
      BY <1>3, <1>7, <1>8, <1>9 DEF CallRecord
    <3> QED BY <1>3, <1>4, <3>1
  <2>3. /\ jar' \in [Browser -> Issued' \cup {0}] /\ deleted' \in BOOLEAN
        /\ links' \in [Link -> {"unsent", "sent", "spent"}]
    BY <1>9 DEF SessionsInv, SessionsTypeOK
  <2> QED BY <1>8, <2>1, <2>2, <2>3 DEF SessionsTypeOK, CallRecord, TokenRecord
<1>12. OneSuccessor'
  <2>1. \A m \in Issued : parent # 0 => tokens[m].from # parent
    BY <1>5
  <2> QED BY <1>6, <1>8, <1>9, <2>1 DEF SessionsInv, OneSuccessor
<1>13. \A u \in Tab : /\ Holds(u)' => Holds(u) /\ u # t /\ call'[u] = call[u]
                      /\ call'[u].at \in {"refreshing", "claimed", "allowed"} =>
                           u # t /\ call'[u] = call[u]
  BY <1>7, <1>8 DEF Holds
<1>14. Exclusive'
  <2>1. \A u \in Tab :
          call'[u].at \in {"refreshing", "claimed", "allowed"} => call'[u].tok \in Issued
    BY <1>13 DEF SessionsInv, Exclusive
  <2>2. ASSUME NEW u \in Tab, Holds(u)'
        PROVE  /\ tokens'[call'[u].tok].used
               /\ \A m \in Issued' : tokens'[m].from # call'[u].tok
    <3>1. /\ Holds(u) /\ u # t /\ call'[u].tok = call[u].tok /\ call[u].tok \in Issued
          /\ tokens[call[u].tok].used
          /\ \A m \in Issued : tokens[m].from # call[u].tok
      BY <1>13, <2>2 DEF SessionsInv, Exclusive, Holds
    <3>2. call[u].tok # parent
      <4>1. call[u].tok # 0
        BY <3>1, IssuedTokens, SessionsAssumption DEF TokenNo
      <4>2. Holds(t) => call[u].tok # call[t].tok
        BY <3>1 DEF SessionsInv, Exclusive
      <4> QED BY <1>5, <4>1, <4>2
    <3> QED BY <1>6, <1>8, <1>9, <3>1, <3>2
  <2>3. \A u, v \in Tab :
          u # v /\ Holds(u)' /\ Holds(v)' => call'[u].tok # call'[v].tok
    BY <1>13 DEF SessionsInv, Exclusive
  <2>4. \A m \in Issued' : tokens'[m].from # 0 =>
          tokens'[m].from \in Issued /\ tokens'[tokens'[m].from].used
    <3>1. ASSUME NEW m \in Issued, tokens'[m].from # 0
          PROVE  tokens'[m].from \in Issued /\ tokens'[tokens'[m].from].used
      BY <1>8, <3>1 DEF SessionsInv, Exclusive
    <3>2. tokens'[n].from # 0 =>
            tokens'[n].from \in Issued /\ tokens'[tokens'[n].from].used
      BY <1>5, <1>6, <1>8
    <3> QED BY <1>9, <3>1, <3>2
  <2> QED BY <1>9, <2>1, <2>2, <2>3, <2>4 DEF Exclusive
<1>15. EndedRevoked'
  <2>1. \A m \in Issued : Locked(m)' => Locked(m)
    BY <1>13 DEF Locked, Holds
  <2> QED BY <1>6, <1>8, <1>9, <2>1 DEF SessionsInv, EndedRevoked
<1>16. EndedIssued'
  BY <1>9 DEF SessionsInv, EndedIssued
<1> QED BY <1>10, <1>11, <1>12, <1>14, <1>15, <1>16 DEF SessionsInv

LEMMA SessionsStepInv == SessionsInv /\ [SessionsNext]_sessionVars => SessionsInv'
<1> SUFFICES ASSUME SessionsInv, [SessionsNext]_sessionVars PROVE SessionsInv'
  OBVIOUS
<1>1. CASE UNCHANGED sessionVars
  <2>1. SessionsTypeOK' /\ Issued' = Issued
    BY <1>1 DEF sessionVars, SessionsInv, SessionsTypeOK, Issued
  <2> QED BY <1>1, <2>1, TokensKept DEF sessionVars, SessionsInv, Exclusive, Holds
<1>2. ASSUME NEW t \in Tab, IssueLogin(t) PROVE SessionsInv'
  <2>1. Insertable(t, 0, 0) /\ Insert(t, 0, 0) /\ UNCHANGED <<jar, deleted, links, ended>>
    BY <1>2 DEF IssueLogin, Insertable
  <2> QED BY <2>1, InsertInv
<1>3. ASSUME NEW t \in Tab, Rotate(t) PROVE SessionsInv'
  <2>1. /\ Insertable(t, tokens[call[t].tok].family, call[t].tok)
        /\ Insert(t, tokens[call[t].tok].family, call[t].tok)
        /\ UNCHANGED <<jar, deleted, links, ended>>
    BY <1>3 DEF Rotate, Insertable
  <2> QED BY <2>1, InsertInv
<1>4. ASSUME NEW t \in Tab, CallProceeds(t) PROVE SessionsInv'
  BY <1>2, <1>3, <1>4, ClaimTokenInv, RefuseUserInv, SweepCommitInv, QuietStepInv
     DEF CallProceeds, QuietStep
<1>5. ASSUME NEW t \in Tab,
             \/ LoseReply(t) \/ Login(t) \/ Refresh(t) \/ Logout(t) \/ DeleteAccount(t)
             \/ \E k \in Link : RedeemLink(t, k)
      PROVE  SessionsInv'
  BY <1>5, QuietStepInv DEF QuietStep
<1> QED BY <1>1, <1>4, <1>5, LinkStepInv DEF SessionsNext

THEOREM SessionsAlways == SessionsSpec => []SessionsInv
  BY SessionsInitInv, SessionsStepInv, PTL DEF SessionsSpec

(* The rows stay well formed: a token belongs to a family opened no later, *)
(* and continues an earlier token (models/refresh_token.py).               *)
THEOREM SessionsTypeCorrect == SessionsSpec => []SessionsTypeOK
<1>1. SessionsInv => SessionsTypeOK
  BY DEF SessionsInv
<1> QED BY <1>1, SessionsAlways, PTL

(* However the refreshes of any number of tabs overlap, a refresh token is *)
(* exchanged for one successor at most (auth.py:203-216).                  *)
THEOREM ExchangedOnce == SessionsSpec => []OneSuccessor
<1>1. SessionsInv => OneSuccessor
  BY DEF SessionsInv
<1> QED BY <1>1, SessionsAlways, PTL

(* A family that a logout, a reset, a deletion or a replay revoked while   *)
(* none of its tokens was being rotated is never usable again.             *)
THEOREM EndedForGood == SessionsSpec => []EndedStaysEnded
<1>1. SessionsInv => EndedStaysEnded
  BY DEF SessionsInv, EndedRevoked, EndedStaysEnded, Usable
<1> QED BY <1>1, SessionsAlways, PTL

-----------------------------------------------------------------------------
(***************************************************************************)
(* Silence after the account is deleted.                                   *)
(***************************************************************************)

(* The calls that have read the user and still owe a token.                *)
Owed == {t \in Tab : call[t].at \in {"verified", "allowed"}}

(* Deleting the account stops the reads, so what is owed only shrinks.     *)
Silent ==
    /\ late \in Nat
    /\ ~deleted => late = 0
    /\ deleted => late + Cardinality(Owed) <= Cardinality(Tab)

LEMMA OwedTabs == IsFiniteSet(Owed) /\ Cardinality(Owed) \in Nat /\ Cardinality(Tab) \in Nat
                  /\ Cardinality(Owed) <= Cardinality(Tab)
<1>1. Owed \subseteq Tab /\ IsFiniteSet(Tab)
  BY SessionsAssumption DEF Owed
<1> QED BY <1>1, FS_Subset, FS_CardinalityType

(* No token is issued, and after the deletion no call begins to owe one.   *)
LEMMA OwedShrinks ==
    ASSUME Silent, late' = late, deleted => deleted' /\ Owed' \subseteq Owed,
           Owed' \subseteq Tab, deleted' \in BOOLEAN
    PROVE  Silent'
<1>1. IsFiniteSet(Owed) /\ IsFiniteSet(Tab)
  BY OwedTabs, SessionsAssumption
<1>2. CASE deleted
  <2>1. Cardinality(Owed') <= Cardinality(Owed) /\ Cardinality(Owed') \in Nat
    BY <1>1, <1>2, FS_Subset, FS_CardinalityType
  <2> QED BY <1>2, <2>1, OwedTabs DEF Silent
<1>3. CASE ~deleted
  <2>1. Cardinality(Owed') <= Cardinality(Tab) /\ Cardinality(Owed') \in Nat
    BY <1>1, FS_Subset, FS_CardinalityType
  <2> QED BY <1>3, <2>1 DEF Silent
<1> QED BY <1>2, <1>3

(* A call that owed a token inserts it.                                    *)
LEMMA OwedPaid ==
    ASSUME SessionsInv, Silent, NEW t \in Owed, NEW f, NEW p, Insert(t, f, p),
           deleted' = deleted
    PROVE  Silent'
<1>1. Owed' = Owed \ {t} /\ late' = IF deleted THEN late + 1 ELSE late
  BY DEF Owed, Insert, SessionsInv, SessionsTypeOK
<1>2. Cardinality(Owed') = Cardinality(Owed) - 1
  BY <1>1, OwedTabs, FS_RemoveElement
<1> QED BY <1>1, <1>2, OwedTabs DEF Silent

LEMMA SilentStep == SessionsInv /\ SessionsInv' /\ Silent /\ [SessionsNext]_sessionVars => Silent'
<1> SUFFICES ASSUME SessionsInv, SessionsInv', Silent, [SessionsNext]_sessionVars PROVE Silent'
  OBVIOUS
<1>0. Owed' \subseteq Tab /\ deleted' \in BOOLEAN
  BY DEF Owed, SessionsInv, SessionsTypeOK
<1>1. CASE UNCHANGED <<call, deleted, late>>
  BY <1>0, <1>1, OwedShrinks DEF Owed
<1>2. ASSUME NEW t \in Tab, IssueLogin(t) PROVE Silent'
  BY <1>2, OwedPaid DEF IssueLogin, Owed
<1>3. ASSUME NEW t \in Tab, Rotate(t) PROVE Silent'
  BY <1>3, OwedPaid DEF Rotate, Owed
<1>4. ASSUME NEW t \in Tab, Login(t) \/ CheckUser(t) PROVE Silent'
  BY <1>0, <1>4, OwedShrinks DEF Login, CheckUser
<1>5. ASSUME NEW t \in Tab,
             \/ ClaimToken(t) \/ DetectReuse(t) \/ RefuseUser(t) \/ RevokeAfterReset(t)
             \/ SweepCommit(t) \/ Reply(t) \/ LoseReply(t) \/ Refresh(t) \/ Logout(t)
             \/ DeleteAccount(t) \/ \E k \in Link : RedeemLink(t, k)
      PROVE  Silent'
  <2>1. late' = late /\ (deleted => deleted')
    <3>1. CASE SweepCommit(t)
      BY <3>1 DEF SweepCommit
    <3>2. CASE UNCHANGED <<late, deleted>>
      BY <3>2
    <3> QED
      BY <1>5, <3>1, <3>2
         DEF ClaimToken, DetectReuse, RefuseUser, RevokeAfterReset, Reply, LoseReply,
             Refresh, Logout, DeleteAccount, RedeemLink
  <2>2. /\ \A u \in Tab \ {t} : call'[u].at = call[u].at
        /\ call'[t].at \notin {"verified", "allowed"}
    <3>1. call \in [Tab -> CallRecord]
      BY DEF SessionsInv, SessionsTypeOK, CallRecord
    <3>2. call[t] \in CallRecord
      BY <3>1
    <3>3. CASE ClaimToken(t) \/ RefuseUser(t) \/ SweepCommit(t)
      BY <3>1, <3>2, <3>3 DEF ClaimToken, RefuseUser, SweepCommit, StepTo, CallRecord
    <3>4. CASE DetectReuse(t) \/ RevokeAfterReset(t)
      BY <3>1, <3>2, <3>4 DEF DetectReuse, RevokeAfterReset, CallRecord
    <3>5. CASE Reply(t) \/ LoseReply(t)
      BY <3>1, <3>5 DEF Reply, LoseReply, Quiet
    <3>6. CASE Refresh(t)
      BY <3>1, <3>6 DEF Refresh, Quiet
    <3>7. CASE Logout(t)
      BY <3>1, <3>7 DEF Logout, Quiet
    <3>8. CASE DeleteAccount(t) \/ \E k \in Link : RedeemLink(t, k)
      BY <3>1, <3>8 DEF DeleteAccount, RedeemLink, Quiet
    <3> QED BY <1>5, <3>3, <3>4, <3>5, <3>6, <3>7, <3>8
  <2>3. Owed' \subseteq Owed
    BY <2>2 DEF Owed
  <2> QED BY <1>0, <2>1, <2>3, OwedShrinks
<1>6. RequestReset \/ (\E k \in Link : LinkExpires(k)) => UNCHANGED <<call, deleted, late>>
  BY DEF RequestReset, LinkExpires
<1> QED BY <1>1, <1>2, <1>3, <1>4, <1>5, <1>6 DEF SessionsNext, CallProceeds, sessionVars

(* For any number of tabs: after the account is deleted there are at most  *)
(* as many tokens as tabs, for the calls that had read the user by then.   *)
THEOREM SilentOnceDeleted == SessionsSpec => []DeletedFallsSilent
<1>1. SessionsInit => Silent
  BY DEF SessionsInit, Silent
<1>2. Silent => DeletedFallsSilent
  <2>1. late \in Nat /\ late + Cardinality(Owed) <= Cardinality(Tab) => late <= Cardinality(Tab)
    BY OwedTabs
  <2> QED BY <2>1, OwedTabs DEF Silent, DeletedFallsSilent
<1>3. SessionsSpec => []Silent
  BY <1>1, SilentStep, SessionsAlways, PTL DEF SessionsSpec
<1> QED BY <1>2, <1>3, PTL
=============================================================================
