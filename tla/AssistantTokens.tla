--------------------------- MODULE AssistantTokens ---------------------------
(* What the assistant proposes and the owner confirms with a signed token  *)
(* (core/assistant/tokens.py, actions.py, services/assistant.py).          *)
(*                                                                         *)
(* The token holds the whole action; the only memory is the set of spent   *)
(* nonces, in Redis when it answers and otherwise in the process that      *)
(* handles the confirmation.  A confirmation checks the token first and    *)
(* claims its nonce later, when Redis gets to the command: other           *)
(* confirmations and the end of the token's life come between.             *)
EXTENDS Integers, FiniteSets

CONSTANTS
    Instance,     \* processes that serve the API
    Proposal,     \* tokens the assistant may issue
    ConfirmCall,  \* confirmations in flight at one time
    TokenLife,    \* TOKEN_TTL_SECONDS, in ticks
    PruneAbove,   \* size above which the local set drops expired nonces
    MaxConfirms   \* bound on the accepted confirmations of a token

ASSUME AssistantAssumption ==
    /\ IsFiniteSet(Instance) /\ IsFiniteSet(ConfirmCall)
    /\ TokenLife \in Nat /\ PruneAbove \in Nat /\ MaxConfirms \in Nat

VARIABLES
    proposal,     \* ticks a token stays valid; -1: expired or not issued
    redisUp,      \* Redis answers
    nonceKey,     \* ticks the key of a nonce stays in Redis; -1: no key
    localSpent,   \* _SpentNonces of an instance
    confirming,   \* the confirmations: how far, of which token, on which
                  \* instance, and the TTL computed for the key
    confirms,     \* accepted confirmations of a token so far
    overdue,      \* those accepted after the token had expired (ghost)
    executed,     \* times the action of a token was run (ghost)
    forgetful,    \* Redis came or went, or a process lost its memory (ghost)
    serving       \* the instances of this deployment; fixed

assistantVars == <<proposal, redisUp, nonceKey, localSpent, confirming, confirms, overdue,
                   executed, forgetful, serving>>

Valid(p) == proposal[p] >= 0
Several  == Cardinality(serving) > 1

NoConfirm == [at |-> "idle"]
AtStep(c, step, p) == confirming[c].at = step /\ confirming[c].token = p

AssistantInit ==
    /\ proposal = [p \in Proposal |-> -1]
    /\ redisUp \in BOOLEAN
    /\ nonceKey = [p \in Proposal |-> -1]
    /\ localSpent = [i \in Instance |-> {}]
    /\ confirming = [c \in ConfirmCall |-> NoConfirm]
    /\ confirms = [p \in Proposal |-> 0]
    /\ overdue = [p \in Proposal |-> 0]
    /\ executed = [p \in Proposal |-> 0]
    /\ forgetful = FALSE
    /\ serving \in (SUBSET Instance) \ {{}}
-----------------------------------------------------------------------------
\* propose_* look at the application, issue a token and change nothing.
Propose(p) ==
    /\ ~Valid(p) /\ confirms[p] = 0
    /\ \A c \in ConfirmCall : ~AtStep(c, "verified", p)
    /\ proposal' = [proposal EXCEPT ![p] = TokenLife]
    /\ UNCHANGED <<redisUp, nonceKey, localSpent, confirming, confirms, overdue, executed,
                   forgetful, serving>>

\* POST /assistant/confirm: the token is in time; nothing is awaited between
\* this check and the TTL of the key.
Verify(c, i, p) ==
    /\ confirming[c] = NoConfirm /\ i \in serving /\ Valid(p)
    /\ confirming' = [confirming EXCEPT ![c] =
           [at |-> "verified", token |-> p, on |-> i,
            ttl |-> IF proposal[p] > 1 THEN proposal[p] ELSE 1]]
    /\ UNCHANGED <<proposal, redisUp, nonceKey, localSpent, confirms, overdue, executed,
                   forgetful, serving>>

\* Nonces whose token has expired are dropped when the set has grown.
Prune(seen) == IF Cardinality(seen) > PruneAbove THEN {p \in seen : Valid(p)} ELSE seen

\* Mutant: SET without NX.
ClaimAnyway(p, ttl) ==
    nonceKey' = [nonceKey EXCEPT ![p] = ttl] /\ UNCHANGED localSpent

\* SET NX EX: accepted unless the key is there.
ClaimInRedis(p, ttl) ==
    /\ nonceKey[p] < 0
    /\ nonceKey' = [nonceKey EXCEPT ![p] = ttl]
    /\ UNCHANGED localSpent

ClaimLocally(i, p) ==
    /\ p \notin Prune(localSpent[i])
    /\ localSpent' = [localSpent EXCEPT ![i] = Prune(@) \cup {p}]
    /\ UNCHANGED nonceKey

\* claim_once accepts, whatever became of the token since Verify.  A command
\* whose answer is lost is one that Redis does not answer.
ClaimNonce(c) ==
    LET p == confirming[c].token
        i == confirming[c].on
    IN  /\ confirming[c].at = "verified" /\ confirms[p] < MaxConfirms
        /\ IF redisUp THEN ClaimInRedis(p, confirming[c].ttl) ELSE ClaimLocally(i, p)
        /\ confirms' = [confirms EXCEPT ![p] = @ + 1]
        /\ overdue' = [overdue EXCEPT ![p] = IF Valid(p) THEN @ ELSE @ + 1]
        /\ confirming' = [confirming EXCEPT ![c].at = "claimed"]
        /\ UNCHANGED <<proposal, redisUp, executed, forgetful, serving>>

\* claim_once finds the nonce spent: "This action was already confirmed."
RefuseClaim(c) ==
    LET p == confirming[c].token
        i == confirming[c].on
    IN  /\ confirming[c].at = "verified"
        /\ IF redisUp THEN nonceKey[p] >= 0 /\ UNCHANGED localSpent
           ELSE /\ p \in Prune(localSpent[i])
                /\ localSpent' = [localSpent EXCEPT ![i] = Prune(@)]
        /\ confirming' = [confirming EXCEPT ![c] = NoConfirm]
        /\ UNCHANGED <<proposal, redisUp, nonceKey, confirms, overdue, executed, forgetful,
                       serving>>

\* execute runs the action; what it may still change, it checks again.
Execute(c) ==
    /\ confirming[c].at = "claimed"
    /\ executed' = [executed EXCEPT ![confirming[c].token] = @ + 1]
    /\ confirming' = [confirming EXCEPT ![c] = NoConfirm]
    /\ UNCHANGED <<proposal, redisUp, nonceKey, localSpent, confirms, overdue, forgetful,
                   serving>>

RedisFlips ==
    /\ redisUp' = ~redisUp
    /\ forgetful' = TRUE
    /\ UNCHANGED <<proposal, nonceKey, localSpent, confirming, confirms, overdue, executed,
                   serving>>

CallsOn(i) == {c \in ConfirmCall : confirming[c].at # "idle" /\ confirming[c].on = i}

\* What the process knew is gone and its confirmations die with it.
InstanceRestarts(i) ==
    /\ localSpent[i] # {} \/ CallsOn(i) # {}
    /\ localSpent' = [localSpent EXCEPT ![i] = {}]
    /\ confirming' = [c \in ConfirmCall |-> IF c \in CallsOn(i) THEN NoConfirm
                                            ELSE confirming[c]]
    /\ forgetful' = (forgetful \/ ~redisUp)
    /\ UNCHANGED <<proposal, redisUp, nonceKey, confirms, overdue, executed, serving>>

\* Time passes for the tokens and for the keys alike.
CountDown(ticks) == IF ticks >= 0 THEN ticks - 1 ELSE -1

TokensAge ==
    /\ \E p \in Proposal : Valid(p) \/ nonceKey[p] >= 0
    /\ proposal' = [p \in Proposal |-> CountDown(proposal[p])]
    /\ nonceKey' = [p \in Proposal |-> CountDown(nonceKey[p])]
    /\ UNCHANGED <<redisUp, localSpent, confirming, confirms, overdue, executed, forgetful,
                   serving>>

AssistantNext ==
    \/ \E p \in Proposal : Propose(p)
    \/ \E c \in ConfirmCall :
         \/ \E i \in Instance, p \in Proposal : Verify(c, i, p)
         \/ ClaimNonce(c) \/ RefuseClaim(c) \/ Execute(c)
    \/ RedisFlips \/ TokensAge
    \/ \E i \in Instance : InstanceRestarts(i)

AssistantSpec == AssistantInit /\ [][AssistantNext]_assistantVars
-----------------------------------------------------------------------------
ConfirmState ==
    {NoConfirm} \cup [at : {"verified", "claimed"}, token : Proposal, on : Instance,
                     ttl : 1..(TokenLife + 1)]

Claimed(p) == {c \in ConfirmCall : AtStep(c, "claimed", p)}

AssistantTypeOK ==
    /\ proposal \in [Proposal -> -1..TokenLife]
    /\ redisUp \in BOOLEAN /\ forgetful \in BOOLEAN
    /\ nonceKey \in [Proposal -> -1..(TokenLife + 1)]
    /\ localSpent \in [Instance -> SUBSET Proposal]
    /\ confirming \in [ConfirmCall -> ConfirmState]
    /\ confirms \in [Proposal -> 0..MaxConfirms]
    /\ \A p \in Proposal : executed[p] + Cardinality(Claimed(p)) <= confirms[p]

\* While Redis answers, or without Redis while one process lives, the action of
\* a token runs once however often and on whichever instance it is confirmed,
\* and once more for every confirmation that was checked while the token lived
\* and claimed the nonce after that (tokens.py:9-13, 120-133).
ConfirmedOnce ==
    ~forgetful /\ (redisUp \/ ~Several) => \A p \in Proposal : executed[p] <= 1 + overdue[p]
=============================================================================
