------------------------------ MODULE Enrollment ------------------------------
(***************************************************************************)
(* An agent's identity: the identity step of the console agent             *)
(* (identity.rs, ensure_identity) and of the installed service             *)
(* (identity.rs, installed; service/mod.rs, the rounds), the enrollment    *)
(* exchange with its retries (enrollment.rs), and the ingest server's      *)
(* enrollment transaction (routes/enroll.ts).                              *)
(*                                                                         *)
(* The set has three files: the certificate, the sealed key and            *)
(* identity.json.  A certificate and identity.json name the agent's id and *)
(* key; a key file its key.  The host starts with the complete set of an   *)
(* earlier enrollment (Old), or without it; Old stays in a backup.         *)
(***************************************************************************)
EXTENDS Naturals, Sequences, FiniteSets, FiniteSetsExt

CONSTANTS
    MaxRetries,   \* enrollment.max_retries: attempts of one exchange
    MaxTokens,    \* tokens the operator issues
    MaxInFlight,  \* bound: requests at the server at once
    MaxUpsets     \* bound: events that may cost a token its identity

ASSUME BoundsAssumption ==
    /\ MaxRetries \in Nat
    /\ MaxTokens \in Nat \ {0}
    /\ MaxInFlight \in Nat \ {0}
    /\ MaxUpsets \in Nat

VARIABLES
    mode,      \* "console" or "installed"
    file,      \* the identity set's files
    dir,       \* installed: the identity directory exists
    cfg,       \* the token of agent.toml; 0: none
    pc,        \* where the agent's identity step is
    attempt,   \* attempts of this exchange so far
    kp,        \* the exchange's keypair
    cur,       \* the request whose answer is awaited; 0: none
    step,      \* how far persisting has come
    mem,       \* the identity in memory: id, key and certificate
    code,      \* the exit code of the last end
    reqs,      \* enrollment requests on their way or at the server
    rows,      \* the agents table
    tokens,    \* the enrollment_tokens table: each token's state
    by,        \* its consumed_by_agent_id
    upsets,    \* how many upsets have happened
    calm       \* no fault happens any more

host == <<file, dir, cfg>>
agent == <<pc, attempt, kp, cur, step, mem, code>>
server == <<reqs, rows, tokens, by>>
vars == <<mode, host, agent, server, upsets, calm>>

Order == <<"cert", "key", "ident">>
Files == {"cert", "key", "ident"}
Tokens == 1..MaxTokens
Installed == mode = "installed"

Absent == [is |-> "absent", id |-> 0, key |-> 0]
Torn == [is |-> "torn", id |-> 0, key |-> 0]

(* The three files of an enrollment.                                       *)
SetOf(id, key) ==
    [f \in Files |-> [is |-> "whole", id |-> IF f = "key" THEN 0 ELSE id, key |-> key]]

Old == [id |-> 1, key |-> 1]
NoIdentity == [id |-> 0, key |-> 0, cert |-> Absent]

(* An id or a key number nothing refers to: uuidv7 and fresh entropy.      *)
Fresh(S) == Min((1..(Cardinality(S) + 1)) \ S)

Ids == {r.id : r \in reqs} \cup {r.id : r \in rows} \cup {file[f].id : f \in Files}
       \cup {mem.id, mem.cert.id}
Keys == {r.key : r \in reqs} \cup {r.key : r \in rows} \cup {file[f].key : f \in Files}
        \cup {mem.key, mem.cert.key, kp}

Exit(c) ==
    /\ pc' = "off" /\ code' = c /\ cur' = 0 /\ kp' = 0
    /\ attempt' = 0 /\ step' = 0 /\ mem' = NoIdentity

(* A request nobody waits for is gone from the model once it is answered.  *)
Abandon(S) == {r \in S : r.st # "done"}

Upsets(n) == upsets + n <= MaxUpsets /\ upsets' = upsets + n
Upset == Upsets(1)

Init ==
    /\ mode \in {"console", "installed"}
    /\ file \in {SetOf(Old.id, Old.key), [f \in Files |-> Absent]}
    /\ dir = (mode = "installed" /\ file["cert"] # Absent)
    /\ cfg \in {0, 1}
    /\ tokens = [t \in Tokens |-> IF t = cfg THEN "issued" ELSE "unissued"]
    /\ by = [t \in Tokens |-> 0]
    /\ rows = {Old} /\ reqs = {}
    /\ pc = "off" /\ attempt = 0 /\ kp = 0 /\ cur = 0 /\ step = 0
    /\ mem = NoIdentity /\ code = 0
    /\ upsets = 0 /\ calm = FALSE

-----------------------------------------------------------------------------
(* The identity step, up to the request.                                   *)

Start ==
    /\ pc = "off"
    /\ pc' = IF Installed THEN "check" ELSE "round"
    /\ code' = 0
    /\ UNCHANGED <<mode, host, attempt, kp, cur, step, mem, server, upsets, calm>>

(* installed::check, once per start: an absent directory is an absent set; *)
(* a directory without all three files is refused.                         *)
Check ==
    /\ pc = "check"
    /\ \/ /\ ~dir \/ \A f \in Files : file[f] # Absent
          /\ pc' = "round"
          /\ UNCHANGED <<attempt, kp, cur, step, mem, code>>
       \/ /\ dir /\ \E f \in Files : file[f] = Absent
          /\ Exit(5)
    /\ UNCHANGED <<mode, host, server, upsets, calm>>

IsEnrolled == file["cert"] # Absent /\ file["key"] # Absent

(* check_consistency: the certificate names the key and the id.            *)
Consistent(cert, key, id) == cert.is = "whole" /\ cert.key = key /\ cert.id = id

LoadableUnchecked ==
    /\ file["ident"].is = "whole" /\ file["key"].is = "whole"
    /\ file["ident"].key = file["key"].key

(* load_identity reads the three files: identity.json parses, the key      *)
(* unseals and has the recorded fingerprint; the certificate's text is not *)
(* looked at.  The service's load adds the consistency check.              *)
Loadable ==
    /\ file["ident"].is = "whole" /\ file["key"].is = "whole"
    /\ file["ident"].key = file["key"].key
    /\ Installed => Consistent(file["cert"], file["key"].key, file["ident"].id)

Load ==
    /\ pc = "round" /\ IsEnrolled
    /\ \/ /\ Loadable
          /\ pc' = "ready"
          /\ mem' = [id |-> file["ident"].id, key |-> file["key"].key, cert |-> file["cert"]]
          /\ UNCHANGED <<attempt, kp, cur, step, code>>
       \/ ~Loadable /\ Exit(5)
    /\ UNCHANGED <<mode, host, server, upsets, calm>>

(* enroll: without a token, code 2; else a fresh keypair for the exchange. *)
(* The token is the one this start read: the file changes only while the   *)
(* agent is off, and by its own hygiene.                                   *)
BeginExchange ==
    /\ pc = "round" /\ ~IsEnrolled
    /\ \/ cfg = 0 /\ Exit(2)
       \/ /\ cfg # 0
          /\ pc' = "send" /\ kp' = Fresh(Keys) /\ attempt' = 0
          /\ UNCHANGED <<cur, step, mem, code>>
    /\ UNCHANGED <<mode, host, server, upsets, calm>>

Send ==
    /\ pc = "send" /\ Cardinality(reqs) < MaxInFlight
    /\ LET id == Fresh(Ids) IN
       /\ reqs' = reqs \cup {[id |-> id, tok |-> cfg, key |-> kp, st |-> "sent", ans |-> 0]}
       /\ cur' = id
    /\ attempt' = attempt + 1 /\ pc' = "wait"
    /\ UNCHANGED <<mode, host, kp, step, mem, code, rows, tokens, by, upsets, calm>>

-----------------------------------------------------------------------------
(* The server's transaction.  A request answered to no one is dropped.     *)

Advance(r, st, ans) ==
    reqs' = (reqs \ {r}) \cup
            (IF st = "done" /\ r.id # cur THEN {} ELSE {[r EXCEPT !.st = st, !.ans = ans]})

(* BEGIN, the certificate and the INSERT, all undone by a ROLLBACK.        *)
Arrive(r) ==
    /\ r.st = "sent"
    /\ Advance(r, "open", 0)
    /\ UNCHANGED <<mode, host, agent, rows, tokens, by, upsets, calm>>

ConsumeUnlocked(r) ==
    /\ r.st = "open"
    /\ \/ tokens[r.tok] = "issued" /\ Advance(r, "locked", 0)
       \/ /\ tokens[r.tok] # "issued"
          /\ Advance(r, "done", IF tokens[r.tok] = "consumed" THEN 409 ELSE 401)
    /\ UNCHANGED <<mode, host, agent, rows, tokens, by, upsets, calm>>

(* The UPDATE waits for another transaction's lock on the token's row and  *)
(* then looks at the row again; without a row, ROLLBACK and 409 or 401.    *)
Consume(r) ==
    /\ r.st = "open"
    /\ \A s \in reqs : s.tok = r.tok => s.st # "locked"
    /\ \/ tokens[r.tok] = "issued" /\ Advance(r, "locked", 0)
       \/ /\ tokens[r.tok] # "issued"
          /\ Advance(r, "done", IF tokens[r.tok] = "consumed" THEN 409 ELSE 401)
    /\ UNCHANGED <<mode, host, agent, rows, tokens, by, upsets, calm>>

Committed(r) ==
    /\ rows' = rows \cup {[id |-> r.id, key |-> r.key]}
    /\ tokens' = [tokens EXCEPT ![r.tok] = "consumed"]
    /\ by' = [by EXCEPT ![r.tok] = r.id]

Commit(r) ==
    /\ r.st = "locked"
    /\ Committed(r) /\ Advance(r, "done", 200)
    /\ UNCHANGED <<mode, host, agent, upsets, calm>>

(* The database takes the COMMIT and its answer is lost: 503 all the same. *)
CommitUnheard(r) ==
    /\ r.st = "locked" /\ ~calm /\ Upset
    /\ Committed(r) /\ Advance(r, "done", 503)
    /\ UNCHANGED <<mode, host, agent, calm>>

ServerErrorLate(r) ==
    /\ r.st \in {"open", "locked"} /\ ~calm
    /\ Advance(r, "done", 503)
    /\ IF r.st = "locked" THEN Committed(r) ELSE UNCHANGED <<rows, tokens, by>>
    /\ UNCHANGED <<mode, host, agent, upsets, calm>>

(* A statement fails: ROLLBACK, 503 or 500.                                *)
ServerError(r) ==
    /\ r.st \in {"open", "locked"} /\ ~calm
    /\ Advance(r, "done", 503)
    /\ UNCHANGED <<mode, host, agent, rows, tokens, by, upsets, calm>>

(* now() is the start of the transaction, so those that are open are not   *)
(* concerned.                                                              *)
Expire(t) ==
    /\ tokens[t] = "issued" /\ ~calm
    /\ \A r \in reqs : r.tok = t => r.st \notin {"open", "locked"}
    /\ tokens' = [tokens EXCEPT ![t] = "expired"]
    /\ UNCHANGED <<mode, host, agent, reqs, rows, by, upsets, calm>>

(* The network loses a request.                                            *)
LoseRequest(r) ==
    /\ r.st = "sent" /\ ~calm
    /\ reqs' = reqs \ {r}
    /\ UNCHANGED <<mode, host, agent, rows, tokens, by, upsets, calm>>

-----------------------------------------------------------------------------
(* What the agent makes of an answer, or of none.                          *)

(* 5xx and network errors: another attempt with the same request, or the   *)
(* exchange is exhausted: the console's code 4, the service's round wait.  *)
Again ==
    IF attempt < Max({MaxRetries, 1})
    THEN pc' = "send" /\ cur' = 0 /\ UNCHANGED <<attempt, kp, step, mem, code>>
    ELSE IF Installed
         THEN pc' = "roundwait" /\ cur' = 0 /\ kp' = 0 /\ attempt' = 0
              /\ UNCHANGED <<step, mem, code>>
         ELSE Exit(4)

(* 200: the body is parsed (and, installed, the certificate checked        *)
(* against key and id), and the identity persisted before the next await.  *)
Answer ==
    /\ pc = "wait"
    /\ \E r \in reqs :
        /\ r.id = cur /\ r.st = "done"
        /\ reqs' = reqs \ {r}
        /\ \/ /\ r.ans = 200
              /\ pc' = "persist" /\ cur' = 0
              /\ step' = IF Installed THEN 0 ELSE 1
              /\ mem' = [id |-> r.id, key |-> kp, cert |-> SetOf(r.id, r.key)["cert"]]
              /\ UNCHANGED <<attempt, kp, code>>
           \/ r.ans \in {401, 409} /\ Exit(3)
           \/ r.ans = 503 /\ Again
    /\ UNCHANGED <<mode, host, rows, tokens, by, upsets, calm>>

(* A 200 whose body does not arrive whole: code 3.                         *)
Malformed ==
    /\ pc = "wait" /\ ~calm /\ Upset
    /\ \E r \in reqs : r.id = cur /\ r.st = "done" /\ r.ans = 200 /\ reqs' = reqs \ {r}
    /\ Exit(3)
    /\ UNCHANGED <<mode, host, rows, tokens, by, calm>>

(* The request was lost: a network error.                                  *)
NoAnswer ==
    /\ pc = "wait" /\ \A r \in reqs : r.id # cur
    /\ Again
    /\ UNCHANGED <<mode, host, server, upsets, calm>>

(* The request timeout, or the answer lost: the request goes on without us.*)
Timeout ==
    /\ pc = "wait" /\ ~calm /\ Upset
    /\ \E r \in reqs : r.id = cur
    /\ reqs' = {r \in reqs : r.id # cur \/ r.st # "done"}
    /\ Again
    /\ UNCHANGED <<mode, host, rows, tokens, by, calm>>

(* A server certificate the trust anchor does not vouch for: code 6.       *)
Untrusted ==
    /\ pc = "wait" /\ ~calm
    /\ \E r \in reqs : r.id = cur /\ r.st = "sent" /\ reqs' = reqs \ {r}
    /\ Exit(6)
    /\ UNCHANGED <<mode, host, rows, tokens, by, upsets, calm>>

RoundWaitOnce ==
    /\ pc = "roundwait" /\ cfg = 0
    /\ pc' = "round"
    /\ UNCHANGED <<mode, host, attempt, kp, cur, step, mem, code, server, upsets, calm>>

(* The next round, with a keypair of its own.                              *)
RoundWait ==
    /\ pc = "roundwait"
    /\ pc' = "round"
    /\ UNCHANGED <<mode, host, attempt, kp, cur, step, mem, code, server, upsets, calm>>

-----------------------------------------------------------------------------
(* Persisting.  The console writes over what is there and restricts the    *)
(* files afterwards; the service creates the directory and each file new,  *)
(* with its security.  Both then drop the token from agent.toml.           *)

NewFile == SetOf(mem.id, mem.key)[Order[step]]

EnsureDirectory ==
    /\ pc = "persist" /\ step = 0
    /\ dir' = TRUE /\ step' = 1
    /\ UNCHANGED <<mode, file, cfg, pc, attempt, kp, cur, mem, code, server, upsets, calm>>

(* create_new_file: CREATE_NEW refuses a file that is there, code 5.       *)
CreateNew ==
    /\ Installed /\ pc = "persist" /\ step \in 1..3
    /\ \/ /\ dir /\ file[Order[step]] = Absent
          /\ file' = [file EXCEPT ![Order[step]] = NewFile]
          /\ pc' = IF step = 3 THEN "hygiene" ELSE "persist"
          /\ step' = step + 1
          /\ UNCHANGED <<attempt, kp, cur, mem, code>>
       \/ /\ ~dir \/ file[Order[step]] # Absent
          /\ file' = file /\ Exit(5)
    /\ UNCHANGED <<mode, dir, cfg, server, upsets, calm>>

(* fs::write replaces what is there.                                       *)
Write ==
    /\ ~Installed /\ pc = "persist" /\ step \in 1..3
    /\ file' = [file EXCEPT ![Order[step]] = NewFile]
    /\ step' = step + 1
    /\ UNCHANGED <<mode, dir, cfg, pc, attempt, kp, cur, mem, code, server, upsets, calm>>

(* The three files' access, one after the other; a failure is code 5 and   *)
(* leaves the set, which the next start loads.                             *)
Harden ==
    /\ ~Installed /\ pc = "persist" /\ step \in 4..6
    /\ \/ /\ step' = step + 1
          /\ pc' = IF step = 6 THEN "hygiene" ELSE "persist"
          /\ UNCHANGED <<attempt, kp, cur, mem, code>>
       \/ ~calm /\ Exit(5)
    /\ UNCHANGED <<mode, file, dir, cfg, server, upsets, calm>>

(* A write, the seal or the directory fails; a file may be left part       *)
(* written.  The answer's identity is gone with the process.               *)
PersistFails ==
    /\ pc = "persist" /\ step \in 0..3 /\ ~calm /\ Upset
    /\ \/ file' = file
       \/ /\ step > 0 /\ (Installed => dir /\ file[Order[step]] = Absent)
          /\ file' = [file EXCEPT ![Order[step]] = Torn]
    /\ Exit(5)
    /\ UNCHANGED <<mode, dir, cfg, server, calm>>

(* hygienize_token, best effort.                                           *)
Hygiene ==
    /\ pc = "hygiene"
    /\ cfg' = 0 \/ (~calm /\ cfg' = cfg)
    /\ pc' = "ready" /\ step' = 0 /\ kp' = 0
    /\ UNCHANGED <<mode, file, dir, attempt, cur, mem, code, server, upsets, calm>>

-----------------------------------------------------------------------------
(* Ends, and what happens around the agent.                                *)

(* STOP in the service's select: a request in flight is dropped.  Both     *)
(* agents stop once they have their identity.                              *)
Stop ==
    /\ pc = "ready" \/ (Installed /\ pc \in {"round", "send", "wait", "roundwait"})
    /\ Exit(0)
    /\ IF pc = "wait" THEN Upset /\ reqs' = Abandon(reqs) ELSE UNCHANGED <<upsets, reqs>>
    /\ UNCHANGED <<mode, host, rows, tokens, by, calm>>

(* The process dies, a file it was writing part written.                   *)
Crash ==
    /\ pc # "off" /\ ~calm
    /\ Exit(0) /\ reqs' = Abandon(reqs)
    /\ IF pc = "wait" \/ (pc = "persist" /\ step \in 0..3) THEN Upset ELSE UNCHANGED upsets
    /\ \/ file' = file
       \/ /\ pc = "persist" /\ step \in 1..3
          /\ Installed => dir /\ file[Order[step]] = Absent
          /\ file' = [file EXCEPT ![Order[step]] = Torn]
    /\ UNCHANGED <<mode, dir, cfg, rows, tokens, by, calm>>

(* The operator writes a new token into agent.toml.                        *)
NewToken(t) ==
    /\ pc = "off" /\ tokens[t] = "unissued"
    /\ \A s \in 1..(t - 1) : tokens[s] # "unissued"
    /\ tokens' = [tokens EXCEPT ![t] = "issued"] /\ cfg' = t
    /\ UNCHANGED <<mode, file, dir, agent, reqs, rows, by, upsets, calm>>

(* A file is lost, or the operator removes the set.  Between the service's *)
(* check and its round this costs two: the identity removed, and the token *)
(* of the exchange that is_enrolled then starts over an incomplete set.    *)
Remove ==
    /\ ~calm /\ Upsets(IF Installed /\ pc = "round" THEN 2 ELSE 1)
    /\ \/ \E f \in Files : file[f] # Absent
                           /\ file' = [file EXCEPT ![f] = Absent] /\ dir' = dir
       \/ file' = [f \in Files |-> Absent] /\ dir' = FALSE
    /\ file' # file \/ dir' # dir
    /\ UNCHANGED <<mode, cfg, agent, server, calm>>

(* The operator copies files of the backup into place, at any time.        *)
Restore(S) ==
    /\ ~calm /\ Upset
    /\ file' = [f \in Files |-> IF f \in S THEN SetOf(Old.id, Old.key)[f] ELSE file[f]]
    /\ dir' = Installed
    /\ UNCHANGED <<mode, cfg, agent, server, calm>>

(* From some time on nothing fails.                                        *)
Calm ==
    /\ ~calm /\ calm' = TRUE
    /\ UNCHANGED <<mode, host, agent, server, upsets>>

AgentStep ==
    \/ Check \/ Load \/ BeginExchange \/ Send \/ Answer \/ NoAnswer \/ RoundWait
    \/ EnsureDirectory \/ CreateNew \/ Write \/ Harden \/ Hygiene
ServerStep == \E r \in reqs : Arrive(r) \/ Consume(r) \/ Commit(r)
Fault ==
    \/ \E r \in reqs : CommitUnheard(r) \/ ServerError(r) \/ LoseRequest(r)
    \/ \E t \in Tokens : Expire(t)
    \/ Malformed \/ Timeout \/ Untrusted \/ PersistFails \/ Crash
Operator ==
    \/ Start \/ Stop \/ Remove
    \/ \E t \in Tokens : NewToken(t)
    \/ \E S \in SUBSET Files \ {{}} : Restore(S)

Next == AgentStep \/ ServerStep \/ Fault \/ Operator \/ Calm

Spec == Init /\ [][Next]_vars
FairSpec == Spec /\ WF_vars(AgentStep) /\ WF_vars(ServerStep) /\ WF_vars(Calm)

-----------------------------------------------------------------------------
(* The identity the agent runs with is one the server registered: its id   *)
(* with its key; the service's certificate is that enrollment's too        *)
(* (identity.rs, load_identity, check_consistency), whatever was lost,     *)
(* restored, overwritten or cut half way.                                  *)
IdentityRegistered ==
    pc = "ready" =>
        /\ [id |-> mem.id, key |-> mem.key] \in rows
        /\ Installed => Consistent(mem.cert, mem.key, mem.id)

(* A token makes one agent: consumption and the agent's row are one        *)
(* transaction, when the agent's retry overlaps its first request as well  *)
(* (routes/enroll.ts, the UPDATE's row lock and the ROLLBACKs).            *)
OneAgentPerToken ==
    LET consumed == {t \in Tokens : tokens[t] = "consumed"} IN
    /\ Cardinality(rows) = 1 + Cardinality(consumed)
    /\ \A t \in consumed : by[t] # Old.id /\ \E r \in rows : r.id = by[t]
    /\ \A t, u \in consumed : by[t] = by[u] => t = u

(* The agent of token t can still come to use its identity: it is in use,  *)
(* being persisted, complete on disk, or its answer is on the way.         *)
Held(t) ==
    \/ pc \in {"persist", "hygiene", "ready"} /\ mem.id = by[t]
    \/ Loadable /\ file["ident"].id = by[t] /\ file["cert"].id = by[t]
    \/ pc = "wait" /\ cur = by[t]

(* A consumed token leaves the agent without an identity only through an   *)
(* upset the code cannot undo (an answer lost after the COMMIT, an end     *)
(* between the answer and the files, files removed or replaced), and an    *)
(* upset costs one token (enroll.ts, the transaction; enrollment.rs, the   *)
(* retries; identity.rs, persist before hygiene).                          *)
TokensLostToUpsets ==
    Cardinality({t \in Tokens : tokens[t] = "consumed" /\ ~Held(t)}) <= upsets

(* Once nothing fails, an identity step ends: with an identity or with an  *)
(* exit whose cause an operator must see; the service's rounds go on until *)
(* one of them (service/mod.rs, identity_rounds_until_stopped).            *)
StepSettles == (pc # "off") ~> (pc = "ready" \/ (pc = "off" /\ (Installed => code # 4)))
=============================================================================
