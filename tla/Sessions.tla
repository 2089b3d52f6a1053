------------------------------ MODULE Sessions ------------------------------
(* The sessions of one account: rotating refresh tokens, password reset    *)
(* and soft delete (api/v1/auth.py, services/password_reset.py), and the   *)
(* browser tabs that call them (frontend/src/services/api.ts).             *)
(*                                                                         *)
(* A call keeps what it read between its statements.  The conditional      *)
(* UPDATE that claims a token locks its row until the call commits; a      *)
(* statement that revokes many rows picks them when it starts, waits for   *)
(* the locked ones and does not see rows inserted meanwhile.               *)
EXTENDS Integers, FiniteSets

CONSTANTS
    Tab,          \* browser tabs
    Browser,      \* browsers; the tabs of one share its cookie
    HomeOf,       \* the browser of a tab
    LossyNetwork, \* replies may be lost
    MaxTokens,    \* bound on the refresh tokens issued
    MaxLinks      \* bound on the reset links sent

ASSUME SessionsAssumption ==
    /\ HomeOf \in [Tab -> Browser]
    /\ LossyNetwork \in BOOLEAN /\ IsFiniteSet(Tab)
    /\ MaxTokens \in Nat /\ MaxLinks \in Nat

VARIABLES
    tokens,       \* refresh_tokens
    jar,          \* the refresh cookie of a browser; 0: none
    call,         \* the request a tab waits for
    deleted,      \* users.deleted_at is set
    links,        \* password_reset_tokens
    ended,        \* families revoked with no rotation under way (ghost)
    late          \* tokens issued after the account was deleted (ghost)

sessionVars == <<tokens, jar, call, deleted, links, ended, late>>

TokenNo  == 1..MaxTokens
Link     == 1..MaxLinks
Unissued == [family |-> 0, from |-> 0, used |-> FALSE, revoked |-> FALSE]
Quiet    == [at |-> "quiet", tok |-> 0, made |-> 0, rows |-> {}, link |-> 0]
CallAt   == {"quiet", "verified", "refreshing", "claimed", "allowed", "redeeming",
             "reuse", "logout", "reset", "delete", "signedIn", "signedOut", "failed"}
Sweeping == {"reuse", "logout", "reset", "delete"}

Issued   == {n \in TokenNo : tokens[n].family # 0}
Family(f) == {n \in Issued : tokens[n].family = f}
Usable(n) == n \in Issued /\ ~tokens[n].used /\ ~tokens[n].revoked
Unsent   == {k \in Link : links[k] = "unsent"}

\* A claimed row stays locked until its call commits or is rolled back.
Locked(n) == \E t \in Tab : call[t].at \in {"claimed", "allowed"} /\ call[t].tok = n

SessionsInit ==
    /\ tokens = [n \in TokenNo |-> Unissued]
    /\ jar = [b \in Browser |-> 0]
    /\ call = [t \in Tab |-> Quiet]
    /\ deleted = FALSE
    /\ links = [k \in Link |-> "unsent"]
    /\ ended = {}
    /\ late = 0
-----------------------------------------------------------------------------
StepTo(t, at) == call' = [call EXCEPT ![t].at = at]

\* Mutant: the cookie of a token that was never stored.
InsertForgotten(t, f, parent) ==
    /\ call' = [call EXCEPT ![t].at = "signedIn", ![t].made = Cardinality(Issued) + 1]
    /\ UNCHANGED <<tokens, late>>

\* _issue_session: insert a token, of a new family or of the one it continues.
Insert(t, f, parent) ==
    LET n == Cardinality(Issued) + 1
    IN  /\ n \in TokenNo
        /\ tokens' = [tokens EXCEPT ![n] =
               [Unissued EXCEPT !.family = IF f = 0 THEN n ELSE f, !.from = parent]]
        /\ call' = [call EXCEPT ![t].at = "signedIn", ![t].made = n]
        /\ late' = IF deleted THEN late + 1 ELSE late

\* login: read the user and verify the password in force.
Login(t) ==
    /\ call[t].at = "quiet" /\ ~deleted
    /\ call' = [call EXCEPT ![t] = [Quiet EXCEPT !.at = "verified"]]
    /\ UNCHANGED <<tokens, jar, deleted, links, ended, late>>

IssueLogin(t) ==
    /\ call[t].at = "verified"
    /\ Insert(t, 0, 0)
    /\ UNCHANGED <<jar, deleted, links, ended>>

\* refreshAccessToken: one call per tab, with the cookie the browser has now.
\* The row is looked up by the token's hash.
Refresh(t) ==
    /\ call[t].at = "quiet" /\ jar[HomeOf[t]] # 0
    /\ call' = [call EXCEPT ![t] = [Quiet EXCEPT !.at = "refreshing", !.tok = jar[HomeOf[t]]]]
    /\ UNCHANGED <<tokens, jar, deleted, links, ended, late>>

\* Mutant: the claim tests used only.
UnusedOnly(n) == ~tokens[n].used

\* Mutant: the claim tests revoked only (check-then-set of used).
UnrevokedOnly(n) == ~tokens[n].revoked

\* The WHERE of the claiming UPDATE.
Claimable(n) == ~tokens[n].used /\ ~tokens[n].revoked

ClaimToken(t) ==
    LET n == call[t].tok
    IN  /\ call[t].at = "refreshing" /\ ~Locked(n) /\ Claimable(n)
        /\ tokens' = [tokens EXCEPT ![n].used = TRUE]
        /\ StepTo(t, "claimed")
        /\ UNCHANGED <<jar, deleted, links, ended, late>>

\* rowcount 0: the rows of the family are revoked.
DetectReuse(t) ==
    LET n == call[t].tok
    IN  /\ call[t].at = "refreshing" /\ ~Locked(n) /\ ~Claimable(n)
        /\ call' = [call EXCEPT ![t].at = "reuse", ![t].rows = Family(tokens[n].family)]
        /\ UNCHANGED <<tokens, jar, deleted, links, ended, late>>

\* Mutant: the user is not looked at.
SkipUserCheck(t) ==
    /\ call[t].at = "claimed"
    /\ StepTo(t, "allowed")
    /\ UNCHANGED <<tokens, jar, deleted, links, ended, late>>

\* The user is read after the claim; without a live user the error rolls the
\* claim back.
CheckUser(t) ==
    /\ call[t].at = "claimed" /\ ~deleted
    /\ StepTo(t, "allowed")
    /\ UNCHANGED <<tokens, jar, deleted, links, ended, late>>

RefuseUser(t) ==
    /\ call[t].at = "claimed" /\ deleted
    /\ tokens' = [tokens EXCEPT ![call[t].tok].used = FALSE]
    /\ StepTo(t, "failed")
    /\ UNCHANGED <<jar, deleted, links, ended, late>>

\* The claim, the new token and the commit.
Rotate(t) ==
    /\ call[t].at = "allowed"
    /\ Insert(t, tokens[call[t].tok].family, call[t].tok)
    /\ UNCHANGED <<jar, deleted, links, ended>>

Logout(t) ==
    /\ call[t].at = "quiet" /\ jar[HomeOf[t]] # 0
    /\ call' = [call EXCEPT ![t] = [Quiet EXCEPT !.at = "logout", !.tok = jar[HomeOf[t]],
                                      !.rows = Family(tokens[jar[HomeOf[t]]].family)]]
    /\ UNCHANGED <<tokens, jar, deleted, links, ended, late>>

\* delete_account reads the user, then stamps deleted_at and revokes.
DeleteAccount(t) ==
    /\ call[t].at = "quiet" /\ ~deleted
    /\ call' = [call EXCEPT ![t] = [Quiet EXCEPT !.at = "delete", !.rows = Issued]]
    /\ UNCHANGED <<tokens, jar, deleted, links, ended, late>>

RequestReset ==
    /\ ~deleted /\ Unsent # {}
    /\ links' = [links EXCEPT ![CHOOSE k \in Unsent : \A l \in Unsent : k <= l] = "sent"]
    /\ UNCHANGED <<tokens, jar, call, deleted, ended, late>>

LinkExpires(k) ==
    /\ links[k] = "sent"
    /\ links' = [links EXCEPT ![k] = "spent"]
    /\ UNCHANGED <<tokens, jar, call, deleted, ended, late>>

\* reset_password checks the link and the user, then hashes the password.
RedeemLink(t, k) ==
    /\ call[t].at = "quiet" /\ links[k] = "sent" /\ ~deleted
    /\ call' = [call EXCEPT ![t] = [Quiet EXCEPT !.at = "redeeming", !.link = k]]
    /\ UNCHANGED <<tokens, jar, deleted, links, ended, late>>

RevokeAfterReset(t) ==
    /\ call[t].at = "redeeming"
    /\ call' = [call EXCEPT ![t].at = "reset", ![t].rows = Issued]
    /\ UNCHANGED <<tokens, jar, deleted, links, ended, late>>

\* Which of the rows it picked a revoking statement changes: all of them.
Revoked(t) == call[t].rows

\* A family is at its end when no row was added to it behind the statement's back.
SweepCommit(t) ==
    /\ call[t].at \in Sweeping /\ \A n \in call[t].rows : ~Locked(n)
    /\ tokens' = [n \in TokenNo |->
           IF n \in Revoked(t) THEN [tokens[n] EXCEPT !.revoked = TRUE] ELSE tokens[n]]
    /\ ended' = ended \cup {f \in TokenNo : Family(f) # {} /\ Family(f) \subseteq call[t].rows}
    /\ deleted' = (deleted \/ call[t].at = "delete")
    /\ links' = IF call[t].at # "reset" THEN links
                ELSE [k \in Link |-> IF links[k] = "sent" \/ k = call[t].link
                                     THEN "spent" ELSE links[k]]
    \* the error reply of a replay carries no cookie
    /\ StepTo(t, IF call[t].at = "reuse" THEN "failed" ELSE "signedOut")
    /\ UNCHANGED <<jar, late>>

\* The reply reaches the browser and sets or clears the cookie, or is lost.
Reply(t) ==
    /\ call[t].at \in {"signedIn", "signedOut", "failed"}
    /\ call' = [call EXCEPT ![t] = Quiet]
    /\ jar' = CASE call[t].at = "signedIn"  -> [jar EXCEPT ![HomeOf[t]] = call[t].made]
                [] call[t].at = "signedOut" -> [jar EXCEPT ![HomeOf[t]] = 0]
                [] OTHER -> jar
    /\ UNCHANGED <<tokens, deleted, links, ended, late>>

LoseReply(t) ==
    /\ LossyNetwork /\ call[t].at = "signedIn"
    /\ call' = [call EXCEPT ![t] = Quiet]
    /\ UNCHANGED <<tokens, jar, deleted, links, ended, late>>

CallProceeds(t) ==
    \/ IssueLogin(t) \/ ClaimToken(t) \/ DetectReuse(t) \/ CheckUser(t) \/ RefuseUser(t)
    \/ Rotate(t) \/ RevokeAfterReset(t) \/ SweepCommit(t) \/ Reply(t)

SessionsNext ==
    \/ \E t \in Tab : \/ CallProceeds(t) \/ LoseReply(t)
                      \/ Login(t) \/ Refresh(t) \/ Logout(t) \/ DeleteAccount(t)
                      \/ \E k \in Link : RedeemLink(t, k)
    \/ RequestReset \/ \E k \in Link : LinkExpires(k)

SessionsSpec == SessionsInit /\ [][SessionsNext]_sessionVars
-----------------------------------------------------------------------------
SessionsTypeOK ==
    /\ tokens \in [TokenNo -> [family : 0..MaxTokens, from : 0..MaxTokens,
                               used : BOOLEAN, revoked : BOOLEAN]]
    /\ \A n \in TokenNo : tokens[n].family <= n /\ (n \in Issued => tokens[n].from < n)
    /\ jar \in [Browser -> Issued \cup {0}]
    /\ call \in [Tab -> [at : CallAt, tok : Issued \cup {0}, made : Issued \cup {0},
                         rows : SUBSET Issued, link : Link \cup {0}]]
    /\ deleted \in BOOLEAN
    /\ links \in [Link -> {"unsent", "sent", "spent"}]

\* However refreshes overlap, a refresh token is exchanged for one successor
\* at most (auth.py:203-216: only one of two refreshes of a token succeeds).
OneSuccessor ==
    \A m, n \in Issued : m # n /\ tokens[m].from = tokens[n].from => tokens[m].from = 0

\* Once a logout, reset, delete or replay has revoked a family while none of
\* its tokens was being rotated, no token of that family can be used again.
EndedStaysEnded ==
    \A n \in Issued : tokens[n].family \in ended => ~Usable(n)

\* After the account is deleted its sessions fall silent: each tab gets one
\* token at most, for the call that had already read the user
\* (auth.py:218-220, deps.py:43).
DeletedFallsSilent == late <= Cardinality(Tab)

\* What api.ts:59-62 and AuthProvider.tsx:34-37 say: several tabs share one
\* refresh, so none presents a cookie that was already exchanged.
TabsShareOneRefresh ==
    \A t \in Tab : call[t].at = "reuse" => ~tokens[call[t].tok].used
=============================================================================
