-------------------------------- MODULE Auth --------------------------------
(***************************************************************************)
(* AuthOrchestrator and TokenStore (src/prusa/auth.rs, src/token_store.rs) *)
(* on top of the rate limiter, and the requests that use the access token  *)
(* (src/prusa/api.rs).                                                     *)
(*                                                                         *)
(* A caller takes the mutex, and keeps it while it loads the stored        *)
(* tokens, refreshes them, logs in with the password and saves the result. *)
(* Then it lets go and sends its own request with the access token.  The   *)
(* account server rotates the refresh token when it is used.  In a time of *)
(* trouble requests, the disk and the process itself fail at any point.    *)
(***************************************************************************)
EXTENDS RateLimiter

CONSTANTS
  None,      \* no token, no reply, nobody
  Rejected,  \* reply: status 4xx
  Failed     \* reply: status 5xx, no reply, or one that cannot be read

VARIABLES
  pc,        \* where every caller is
  holder,    \* who holds the mutex of AuthOrchestrator::state
  mem,       \* AuthOrchestrator::state
  disk,      \* the file of the TokenStore
  reply,     \* the reply to every caller's token request
  failed,    \* the latch failed_tx
  trouble,   \* environment: the network, the servers or the disk may fail
  lost       \* history: a fault cost the stored refresh token since it was saved

authVars == <<pc, holder, mem, disk, reply, failed, trouble, lost>>
vars == <<limiterVars, authVars>>

Token == [refresh : {"current", "spent"}, access : {"fresh", "old"}]
NewToken == [refresh |-> "current", access |-> "fresh"]
Stored == Token \cup {None}

ASSUME ReplyAssumption ==
  /\ {None, Rejected, Failed} \cap Token = {}
  /\ None # Rejected /\ None # Failed /\ Rejected # Failed
  /\ None \notin Callers

PcStates == {"idle", "err", "lock", "refresh", "page", "chain", "exchange", "api"}

TypeOK ==
  /\ LimiterTypeOK
  /\ pc \in [Callers -> PcStates]
  /\ holder \in Callers \cup {None}
  /\ mem \in Stored
  /\ disk \in Stored
  /\ reply \in [Callers -> Token \cup {None, Rejected, Failed}]
  /\ failed \in BOOLEAN
  /\ trouble \in BOOLEAN
  /\ lost \in BOOLEAN

Init ==
  /\ LimiterInit
  /\ pc = [c \in Callers |-> "idle"]
  /\ holder = None
  /\ mem = None
  /\ disk \in {None, NewToken}
  /\ reply = [c \in Callers |-> None]
  /\ failed = FALSE
  /\ trouble = FALSE
  /\ lost = FALSE

-----------------------------------------------------------------------------
Goto(c, state) == pc' = [pc EXCEPT ![c] = state]

\* The call returns and its guard of the mutex is dropped.
Return(c, state) == Goto(c, state) /\ holder' = None

\* access_about_to_expire()
NeedsRefresh(t) == t.access = "old"

\* A caller needs a token.
Call(c) ==
  /\ pc[c] \in {"idle", "err"}
  /\ Goto(c, "lock")
  /\ UNCHANGED <<limiterVars, holder, mem, disk, reply, failed, trouble, lost>>

\* Mutant: the mutex does not keep a second caller out.
LockAnyway(c) == pc[c] = "lock"

MayLock(c) == pc[c] = "lock" /\ holder = None

\* access_token() up to its first request: take the mutex, load() on first use,
\* and either return the token or go on to refresh it or to log in.
Lock(c) ==
  /\ MayLock(c)
  /\ mem' = IF mem = None THEN disk ELSE mem
  /\ IF mem' = None \/ NeedsRefresh(mem')
       THEN Goto(c, IF mem' = None THEN "page" ELSE "refresh") /\ holder' = c
       ELSE Return(c, "api")
  /\ UNCHANGED <<limiterVars, disk, reply, failed, trouble, lost>>

\* load() fails.
LoadFails(c) ==
  /\ trouble
  /\ MayLock(c)
  /\ mem = None
  /\ Return(c, "err")
  /\ UNCHANGED <<limiterVars, mem, disk, reply, failed, trouble, lost>>

\* PrusaClient::send() waits for its permit and then sends.
Waiting(c) == pc[c] \in {"refresh", "exchange", "api"} /\ reply[c] = None

SendRequest(c) == Waiting(c) /\ Acquire(c) /\ UNCHANGED authVars

ParkRequest(c) == Waiting(c) /\ Park(c) /\ UNCHANGED authVars

\* The server has used up the stored refresh token.
Spend(t) == IF t = None THEN None ELSE [t EXCEPT !.refresh = "spent"]

Reply(c, r) == reply' = [reply EXCEPT ![c] = r]

\* The account server answers the refresh of c.  In trouble the answer may be lost
\* after the token was rotated, and a proxy in between may answer 4xx.
ServerRefresh(c) ==
  /\ pc[c] = "refresh" /\ c \in permits /\ reply[c] = None
  /\ \/ /\ mem.refresh = "current"
        /\ Reply(c, NewToken)
        /\ mem' = Spend(mem) /\ disk' = Spend(disk)
        /\ UNCHANGED lost
     \/ /\ mem.refresh = "spent"
        /\ Reply(c, Rejected)
        /\ UNCHANGED <<mem, disk, lost>>
     \/ /\ trouble
        /\ Reply(c, Rejected)
        /\ lost' = TRUE
        /\ UNCHANGED <<mem, disk>>
     \/ /\ trouble
        /\ Reply(c, Failed)
        /\ \/ mem' = Spend(mem) /\ disk' = Spend(disk) /\ lost' = TRUE
           \/ UNCHANGED <<mem, disk, lost>>
  /\ UNCHANGED <<limiterVars, pc, holder, failed, trouble>>

\* The account server answers the exchange of the authorization code.
ServerExchange(c) ==
  /\ pc[c] = "exchange" /\ c \in permits /\ reply[c] = None
  /\ \/ Reply(c, NewToken)
     \/ trouble /\ (Reply(c, Rejected) \/ Reply(c, Failed))
  /\ UNCHANGED <<limiterVars, pc, holder, mem, disk, failed, trouble, lost>>

\* How send() reports a reply; a body that cannot be parsed came with a success.
OutcomesOf(r) ==
  IF r = Rejected THEN {"ClientError"}
  ELSE {"Success"} \cup (IF r = Failed THEN {"ServerOrNetworkError"} ELSE {})

Answered(c) ==
  /\ reply[c] # None
  /\ \E outcome \in OutcomesOf(reply[c]) : Complete(c, outcome)
  /\ Reply(c, None)

\* Mutant: the new tokens are kept although they could not be saved.
InstallUnsaved(t, saved) ==
  /\ mem' = t
  /\ disk' = IF saved THEN t ELSE disk
  /\ lost' = ~saved

\* save() writes a temporary file and renames it; only then is the state replaced.
Install(t, saved) ==
  /\ mem' = IF saved THEN t ELSE mem
  /\ disk' = IF saved THEN t ELSE disk
  /\ lost' = ~saved

\* New tokens arrive, from the refresh or from the exchange.
NewTokens(c) ==
  /\ pc[c] \in {"refresh", "exchange"}
  /\ reply[c] \in Token
  /\ \E saved \in {TRUE, ~trouble} :
       /\ Install(reply[c], saved)
       /\ Return(c, IF saved THEN "api" ELSE "err")
  /\ Answered(c)
  /\ UNCHANGED <<failed, trouble>>

\* Mutant: a rejected refresh token is an error like any other.
RejectedIsError(c) ==
  /\ pc[c] = "refresh"
  /\ reply[c] = Rejected
  /\ Return(c, "err")

\* The refresh token is rejected: log in with the password, still under the mutex.
FallBack(c) ==
  /\ pc[c] = "refresh"
  /\ reply[c] = Rejected
  /\ Goto(c, "page")
  /\ UNCHANGED holder

RefreshRejected(c) ==
  /\ FallBack(c)
  /\ Answered(c)
  /\ UNCHANGED <<mem, disk, failed, trouble, lost>>

\* Any other failure of a token request ends the call.
RequestFails(c) ==
  /\ reply[c] = Failed \/ (pc[c] = "exchange" /\ reply[c] = Rejected)
  /\ Return(c, "err")
  /\ Answered(c)
  /\ UNCHANGED <<mem, disk, failed, trouble, lost>>

\* bootstrap(), step 1: the login page, fetched past the limiter.
GetPage(c) ==
  /\ pc[c] = "page"
  /\ \/ Goto(c, "chain") /\ UNCHANGED holder
     \/ trouble /\ Return(c, "err")
  /\ UNCHANGED <<limiterVars, mem, disk, reply, failed, trouble, lost>>

\* follow_chain_for_code(): the form is posted and its redirects are followed, past
\* the limiter too.  A response without Location, whatever its status, latches.
FollowChain(c) ==
  /\ pc[c] = "chain"
  /\ \/ Goto(c, "exchange") /\ UNCHANGED <<holder, failed>>
     \/ trouble /\ Return(c, "err") /\ failed' \in {failed, TRUE}
  /\ UNCHANGED <<limiterVars, mem, disk, reply, trouble, lost>>

\* The request of the caller itself, made with the token, comes back.
ApiReturns(c) ==
  /\ pc[c] = "api"
  /\ \E outcome \in (IF trouble THEN Outcomes ELSE {"Success"}) :
       /\ Complete(c, outcome)
       /\ Goto(c, IF outcome = "Success" THEN "idle" ELSE "err")
  /\ UNCHANGED <<holder, mem, disk, reply, failed, trouble, lost>>

-----------------------------------------------------------------------------
\* The access token comes within 60 seconds of its expiry.
Expire ==
  /\ disk # None
  /\ disk.access = "fresh"
  /\ disk' = [disk EXCEPT !.access = "old"]
  /\ mem' = IF mem = None THEN None ELSE [mem EXCEPT !.access = "old"]
  /\ UNCHANGED <<limiterVars, pc, holder, reply, failed, trouble, lost>>

\* The server forgets the session.
Revoke ==
  /\ trouble
  /\ disk # None
  /\ mem' = Spend(mem) /\ disk' = Spend(disk)
  /\ lost' = TRUE
  /\ UNCHANGED <<limiterVars, pc, holder, reply, failed, trouble>>

Trouble ==
  /\ trouble' = ~trouble
  /\ UNCHANGED <<limiterVars, pc, holder, mem, disk, reply, failed, lost>>

\* The process dies and is started again: only the file survives.
Restart ==
  /\ trouble
  /\ LimiterRestart
  /\ pc' = [c \in Callers |-> "idle"]
  /\ holder' = None
  /\ mem' = None
  /\ reply' = [c \in Callers |-> None]
  /\ failed' = FALSE
  /\ lost' = (lost \/ (disk # None /\ disk.refresh = "spent"))
  /\ UNCHANGED <<disk, trouble>>

Progress(c) ==
  \/ Call(c) \/ SendRequest(c) \/ ParkRequest(c)
  \/ ServerRefresh(c) \/ ServerExchange(c)
  \/ NewTokens(c) \/ RefreshRejected(c) \/ RequestFails(c)
  \/ GetPage(c) \/ FollowChain(c) \/ ApiReturns(c)

Next ==
  \/ \E c \in Callers : Progress(c) \/ Lock(c) \/ LoadFails(c)
  \/ ReadTokens /\ UNCHANGED authVars
  \/ Elapse /\ UNCHANGED authVars
  \/ Expire \/ Revoke \/ Trouble \/ Restart

Spec == Init /\ [][Next]_vars

(* Fairness: tasks run, the server answers every request in the end (the   *)
(* client sets no timeout: without this nothing can be promised), time     *)
(* passes, and tokio's mutex is handed to its waiters in their order.      *)
FairSpec ==
  /\ Spec
  /\ \A c \in Callers : WF_vars(Progress(c)) /\ SF_vars(Lock(c))
  /\ WF_vars(Elapse /\ UNCHANGED authVars)

-----------------------------------------------------------------------------
(* MemoryMatchesDisk: the tokens in use are the saved ones, through refused *)
(* refreshes, failed saves and restarts (auth.rs:260); a restart never      *)
(* resumes with tokens that differ from those the process last used.        *)
MemoryMatchesDisk == mem # None => mem = disk

(* LoginOnlyAfterLoss: the password login, which bypasses the limiter, is   *)
(* used only when nothing is stored or a fault has cost the stored refresh  *)
(* token; two concurrent callers never make each other's token invalid      *)
(* (access_token() holds its mutex, auth.rs:235).                           *)
LoginOnlyAfterLoss ==
  \A c \in Callers : pc[c] \in {"page", "chain", "exchange"} => mem = None \/ lost

(* TroubleHeals: once requests and the disk work again, every caller gets   *)
(* a token over and over, whatever was lost before: a spent refresh token,  *)
(* an unsaved rotation, an empty bucket or a latched login failure          *)
(* (auth.rs:260, auth.rs:332) is no lasting obstacle to access_token().     *)
TroubleHeals == <>[](~trouble) => \A c \in Callers : []<>(pc[c] = "api")
=============================================================================
