--------------------------- MODULE EnrollmentProofs ---------------------------
(***************************************************************************)
(* Proofs about module Enrollment, for every number of tokens, retries,    *)
(* requests in flight and upsets: the identity an agent runs with is one   *)
(* the server registered (IdentityRegistered), a token makes one agent     *)
(* (OneAgentPerToken), and only upsets cost tokens, one each               *)
(* (TokensLostToUpsets).                                                   *)
(*                                                                         *)
(* On the server the argument is the row lock: a request that holds it     *)
(* holds it alone, over a token still issued, and its agent's id is in no  *)
(* row yet.  On the host it is the way of an identity: what the answer     *)
(* named is in a row, so is what memory holds and what identity.json says, *)
(* whatever else is cut, removed or restored around it.  For the tokens it *)
(* is a count that charges a loss to the upset that made it inevitable.    *)
(***************************************************************************)
EXTENDS Enrollment, FiniteSetTheorems, WellFoundedInduction, TLAPS

States == {"sent", "open", "locked", "done"}
Answers == {0, 200, 401, 409, 503}
Request == [id : Nat, tok : Tokens, key : Nat, st : States, ans : Answers]
Row == [id : Nat, key : Nat]
File == [is : {"absent", "torn", "whole"}, id : Nat, key : Nat]

ServerTyped ==
    /\ reqs \subseteq Request /\ IsFiniteSet(reqs)
    /\ rows \subseteq Row /\ IsFiniteSet(rows)
    /\ tokens \in [Tokens -> {"unissued", "issued", "consumed", "expired"}]
    /\ by \in [Tokens -> Nat]

HostTyped ==
    /\ file \in [Files -> File]
    /\ mem \in [id : Nat, key : Nat, cert : File]
    /\ kp \in Nat /\ cfg \in {0} \cup Tokens
    /\ pc \in {"send", "wait"} => cfg # 0

(* Requests are told apart by the agent's id each would make.              *)
OwnIds == \A r, s \in reqs : r.id = s.id => r = s

(* The lock on a token's row: one holder, while the token is issued.       *)
RowLock ==
    /\ \A r, s \in reqs : r.st = "locked" /\ s.st = "locked" /\ r.tok = s.tok => r = s
    /\ \A r \in reqs : r.st = "locked" => tokens[r.tok] = "issued"

(* A transaction that is not over made no row; a 200 did.                  *)
Transactions ==
    /\ \A r \in reqs, w \in rows : r.st # "done" => w.id # r.id
    /\ \A r \in reqs : r.st = "done" /\ r.ans = 200 => [id |-> r.id, key |-> r.key] \in rows

(* The awaited answer is to a request with this exchange's key.            *)
Awaited == pc = "wait" => \A r \in reqs : r.id = cur => r.key = kp

(* Where an identity is whole, the server registered it.                   *)
OnDisk ==
    file["ident"].is = "whole" => [id |-> file["ident"].id, key |-> file["ident"].key] \in rows

InMemory ==
    pc \in {"persist", "hygiene", "ready"} =>
        /\ [id |-> mem.id, key |-> mem.key] \in rows
        /\ Installed => Consistent(mem.cert, mem.key, mem.id)

ServerInv ==
    /\ ServerTyped /\ OwnIds /\ RowLock /\ Transactions
    /\ Old \in rows /\ OneAgentPerToken
HostInv == HostTyped /\ Awaited /\ OnDisk /\ InMemory
EnrollInv == ServerInv /\ HostInv

-----------------------------------------------------------------------------
(* New numbers.                                                            *)

(* A set of naturals that is not empty has a least element.                *)
LEMMA LeastNatural ==
    ASSUME NEW T \in SUBSET Nat, T # {}
    PROVE  Min(T) \in T
  <1>1. \E x \in T : \A y \in T : ~(<<y, x>> \in OpToRel(<, Nat))
    BY NatLessThanWellFounded, WFMin
  <1>2. PICK x \in T : \A y \in T : ~(<<y, x>> \in OpToRel(<, Nat))
    BY <1>1
  <1>3. \A y \in T : ~(y < x)
    BY <1>2 DEF OpToRel
  <1>4. \A y \in T : x =< y
    BY <1>3
  <1>. QED  BY <1>4 DEF Min

(* A fresh id or key is in use nowhere (uuidv7, SystemRandom).             *)
LEMMA FreshLemma ==
    ASSUME NEW S, IsFiniteSet(S)
    PROVE  Fresh(S) \in Nat \ {0} /\ Fresh(S) \notin S
  <1>. DEFINE n == Cardinality(S)
              T == (1..(n + 1)) \ S
  <1>1. n \in Nat
    BY FS_CardinalityType
  <1>2. T # {}
    <2>1. SUFFICES ASSUME T = {} PROVE FALSE
      OBVIOUS
    <2>2. (1..(n + 1)) \in SUBSET S
      BY <2>1
    <2>3. Cardinality(1..(n + 1)) <= n
      BY <2>2, FS_Subset
    <2>4. Cardinality(1..(n + 1)) = n + 1
      <3>1. 1 \in Int /\ n + 1 \in Int /\ ~(1 > n + 1) /\ (n + 1) - 1 + 1 = n + 1
        BY <1>1
      <3>. QED  BY <3>1, FS_Interval
    <2>. QED  BY <1>1, <2>3, <2>4
  <1>3. Min(T) \in T
    <2>1. T \in SUBSET Nat
      BY <1>1
    <2>. HIDE DEF T
    <2>. QED  BY <1>2, <2>1, LeastNatural
  <1>. QED  BY <1>1, <1>3 DEF Fresh

(* A new element makes a finite set one larger.                            *)
LEMMA OneMore ==
    ASSUME NEW S, NEW x, IsFiniteSet(S), x \notin S
    PROVE  Cardinality(S \cup {x}) = Cardinality(S) + 1
  BY FS_AddElement

(* A field of finitely many records has finitely many values.              *)
LEMMA ImageFinite ==
    ASSUME NEW S, IsFiniteSet(S), NEW f, f = [x \in S |-> f[x]]
    PROVE  IsFiniteSet({f[x] : x \in S})
  <1>. DEFINE T == {f[x] : x \in S}
  <1>1. f \in Surjection(S, T)
    BY DEF Surjection
  <1>. QED  BY <1>1, FS_Surjection

(* So are the ids and keys anything refers to.                             *)
LEMMA NumbersFinite ==
    ASSUME ServerTyped, HostTyped
    PROVE  IsFiniteSet(Ids) /\ IsFiniteSet(Keys)
  <1>1. IsFiniteSet(reqs) /\ IsFiniteSet(rows) /\ IsFiniteSet(Files)
    <2>1. Files = {"cert"} \cup {"key"} \cup {"ident"}
      BY DEF Files
    <2>2. IsFiniteSet(Files)
      BY <2>1, FS_Singleton, FS_Union
    <2>. QED  BY <2>2 DEF ServerTyped
  <1>2. IsFiniteSet({r.id : r \in reqs}) /\ IsFiniteSet({r.key : r \in reqs})
    <2>. DEFINE f == [r \in reqs |-> r.id]
                g == [r \in reqs |-> r.key]
    <2>1. IsFiniteSet({f[r] : r \in reqs}) /\ IsFiniteSet({g[r] : r \in reqs})
      BY <1>1, ImageFinite
    <2>2. {f[r] : r \in reqs} = {r.id : r \in reqs} /\ {g[r] : r \in reqs} = {r.key : r \in reqs}
      OBVIOUS
    <2>. QED  BY <2>1, <2>2
  <1>3. IsFiniteSet({r.id : r \in rows}) /\ IsFiniteSet({r.key : r \in rows})
    <2>. DEFINE f == [r \in rows |-> r.id]
                g == [r \in rows |-> r.key]
    <2>1. IsFiniteSet({f[r] : r \in rows}) /\ IsFiniteSet({g[r] : r \in rows})
      BY <1>1, ImageFinite
    <2>2. {f[r] : r \in rows} = {r.id : r \in rows} /\ {g[r] : r \in rows} = {r.key : r \in rows}
      OBVIOUS
    <2>. QED  BY <2>1, <2>2
  <1>4. IsFiniteSet({file[x].id : x \in Files}) /\ IsFiniteSet({file[x].key : x \in Files})
    <2>. DEFINE f == [x \in Files |-> file[x].id]
                g == [x \in Files |-> file[x].key]
    <2>1. IsFiniteSet({f[x] : x \in Files}) /\ IsFiniteSet({g[x] : x \in Files})
      BY <1>1, ImageFinite
    <2>2. {f[x] : x \in Files} = {file[x].id : x \in Files} /\ {g[x] : x \in Files} = {file[x].key : x \in Files}
      OBVIOUS
    <2>. QED  BY <2>1, <2>2
  <1>5. IsFiniteSet({mem.id, mem.cert.id}) /\ IsFiniteSet({mem.key, mem.cert.key, kp})
    <2>1. /\ {mem.id, mem.cert.id} = {mem.id} \cup {mem.cert.id}
          /\ {mem.key, mem.cert.key, kp} = {mem.key} \cup {mem.cert.key} \cup {kp}
      OBVIOUS
    <2>2. \A x : IsFiniteSet({x})
      BY FS_Singleton
    <2>3. \A S, T : IsFiniteSet(S) /\ IsFiniteSet(T) => IsFiniteSet(S \cup T)
      BY FS_Union
    <2>4. IsFiniteSet({mem.id} \cup {mem.cert.id})
      BY <2>2, <2>3
    <2>5. IsFiniteSet({mem.key} \cup {mem.cert.key} \cup {kp})
      BY <2>2, <2>3
    <2>. QED  BY <2>1, <2>4, <2>5
  <1>. QED  BY <1>2, <1>3, <1>4, <1>5, FS_Union DEF Ids, Keys

-----------------------------------------------------------------------------
(* The start.                                                              *)

(* One row, of the enrollment before, and no request.                      *)
LEMMA EnrollInit == Init => EnrollInv
  <1>. SUFFICES ASSUME Init PROVE EnrollInv
    OBVIOUS
  <1>. USE DEF Init
  <1>1. 1 \in Tokens
    BY BoundsAssumption DEF Tokens
  <1>2. rows = {Old} /\ reqs = {} /\ Old \in Row /\ Old.id = 1 /\ Old.key = 1
    BY DEF Old, Row
  <1>3. ServerTyped
    <2>1. IsFiniteSet({}) /\ IsFiniteSet({Old})
      BY FS_Singleton, FS_EmptySet
    <2>2. tokens \in [Tokens -> {"unissued", "issued", "consumed", "expired"}]
      OBVIOUS
    <2>. QED  BY <1>2, <2>1, <2>2 DEF ServerTyped
  <1>4. file \in [Files -> File] /\ mem \in [id : Nat, key : Nat, cert : File]
    BY DEF Files, File, SetOf, Old, Absent, NoIdentity
  <1>5. HostTyped
    BY <1>1, <1>4 DEF HostTyped
  <1>6. OwnIds /\ RowLock /\ Transactions /\ Awaited
    BY <1>2 DEF OwnIds, RowLock, Transactions, Awaited
  <1>7. OneAgentPerToken
    <2>1. {t \in Tokens : tokens[t] = "consumed"} = {}
      BY <1>3 DEF ServerTyped
    <2>2. Cardinality(rows) = 1 + 0
      BY <1>2, FS_Singleton
    <2>. QED  BY <2>1, <2>2, FS_EmptySet DEF OneAgentPerToken
  <1>8. OnDisk
    <2>1. "ident" \in Files /\ "ident" # "key"
      BY DEF Files
    <2>2. CASE file = SetOf(Old.id, Old.key)
      <3>1. file["ident"].id = 1 /\ file["ident"].key = 1
        BY <1>2, <2>1, <2>2 DEF SetOf
      <3>. QED  BY <1>2, <3>1 DEF OnDisk, Old
    <2>3. CASE file = [f \in Files |-> Absent]
      BY <2>1, <2>3 DEF OnDisk, Absent
    <2>. QED  BY <2>2, <2>3
  <1>9. InMemory
    BY DEF InMemory
  <1>. QED  BY <1>2, <1>3, <1>5, <1>6, <1>7, <1>8, <1>9 DEF EnrollInv, ServerInv, HostInv

-----------------------------------------------------------------------------
(* The server.                                                             *)

(* Requests that end, with nothing else, disturb no transaction.           *)
LEMMA FewerRequests ==
    ASSUME ServerInv, reqs' \subseteq reqs, UNCHANGED <<rows, tokens, by>>
    PROVE  ServerInv'
  <1>. USE DEF ServerInv
  <1>1. ServerTyped'
    <2>1. IsFiniteSet(reqs')
      BY FS_Subset DEF ServerTyped
    <2>. QED  BY <2>1 DEF ServerTyped
  <1>2. OwnIds' /\ RowLock' /\ Transactions'
    BY DEF OwnIds, RowLock, Transactions
  <1>3. OneAgentPerToken'
    BY DEF OneAgentPerToken
  <1>. QED  BY <1>1, <1>2, <1>3

(* A token's row changes between transactions, before it is consumed.      *)
LEMMA TokenRow ==
    ASSUME ServerInv, NEW t \in Tokens, NEW state \in {"issued", "expired"},
           tokens[t] # "consumed", \A r \in reqs : r.tok = t => r.st # "locked",
           tokens' = [tokens EXCEPT ![t] = state],
           UNCHANGED <<reqs, rows, by>>
    PROVE  ServerInv'
  <1>. USE DEF ServerInv
  <1>1. ServerTyped'
    BY DEF ServerTyped
  <1>2. OwnIds' /\ RowLock' /\ Transactions'
    BY DEF OwnIds, RowLock, Transactions, ServerTyped, Request
  <1>3. {u \in Tokens : tokens'[u] = "consumed"} = {u \in Tokens : tokens[u] = "consumed"}
    BY DEF ServerTyped
  <1>4. OneAgentPerToken'
    BY <1>3 DEF OneAgentPerToken
  <1>. QED  BY <1>1, <1>2, <1>4

(* A request goes one state on.                                            *)
LEMMA AdvanceLemma ==
    ASSUME ServerTyped, NEW r \in reqs, NEW st \in {"open", "locked", "done"},
           NEW ans \in {0, 200, 401, 409, 503}, Advance(r, st, ans)
    PROVE  /\ reqs' \subseteq Request /\ IsFiniteSet(reqs')
           /\ \A s \in reqs' : \/ s \in reqs /\ s # r
                               \/ /\ s.id = r.id /\ s.tok = r.tok /\ s.key = r.key
                                  /\ s.st = st /\ s.ans = ans
           /\ \A s, t \in reqs' : (s \notin reqs \/ s = r) /\ (t \notin reqs \/ t = r) => s = t
  <1>. DEFINE n == [r EXCEPT !.st = st, !.ans = ans]
  <1>1. r \in Request
    BY DEF ServerTyped
  <1>2. n \in Request /\ n.id = r.id /\ n.tok = r.tok /\ n.key = r.key /\ n.st = st /\ n.ans = ans
    <2>1. st \in States /\ ans \in Answers
      BY DEF States, Answers
    <2>. QED  BY <1>1, <2>1 DEF Request
  <1>3. reqs' = reqs \ {r} \/ reqs' = (reqs \ {r}) \cup {n}
    BY DEF Advance
  <1>. HIDE DEF n
  <1>4. IsFiniteSet(reqs \ {r}) /\ IsFiniteSet((reqs \ {r}) \cup {n})
    <2>1. IsFiniteSet(reqs)
      BY DEF ServerTyped
    <2>2. IsFiniteSet(reqs \ {r})
      BY <2>1, FS_RemoveElement
    <2>. QED  BY <2>2, FS_AddElement
  <1>. QED  BY <1>2, <1>3, <1>4 DEF ServerTyped

(* The steps of a transaction that leave the tables alone: the lock is     *)
(* taken over an issued token that no other transaction has locked; every  *)
(* other step gives it up (routes/enroll.ts).                              *)
LEMMA AdvanceKeeps ==
    ASSUME ServerInv, NEW r \in reqs, Arrive(r) \/ Consume(r) \/ ServerError(r)
    PROVE  ServerInv'
  <1>. USE DEF ServerInv
  <1>1. PICK st \in {"open", "locked", "done"}, ans \in {0, 401, 409, 503} :
            /\ Advance(r, st, ans) /\ r.st # "done"
            /\ st = "locked" => /\ tokens[r.tok] = "issued"
                                /\ \A s \in reqs : s.tok = r.tok => s.st # "locked"
    BY DEF Arrive, Consume, ServerError
  <1>2. UNCHANGED <<rows, tokens, by>>
    BY DEF Arrive, Consume, ServerError
  <1>3. /\ reqs' \subseteq Request /\ IsFiniteSet(reqs')
        /\ \A s \in reqs' : \/ s \in reqs /\ s # r
                            \/ /\ s.id = r.id /\ s.tok = r.tok /\ s.key = r.key
                               /\ s.st = st /\ s.ans = ans
        /\ \A s, t \in reqs' : (s \notin reqs \/ s = r) /\ (t \notin reqs \/ t = r) => s = t
    BY <1>1, AdvanceLemma
  <1>4. ServerTyped'
    BY <1>2, <1>3 DEF ServerTyped
  <1>5. OwnIds'
    BY <1>3 DEF OwnIds
  <1>6. RowLock'
    BY <1>1, <1>2, <1>3 DEF RowLock
  <1>7. Transactions'
    BY <1>1, <1>2, <1>3 DEF Transactions
  <1>8. OneAgentPerToken'
    BY <1>2 DEF OneAgentPerToken
  <1>. QED  BY <1>2, <1>4, <1>5, <1>6, <1>7, <1>8

(* COMMIT, heard or not: one row more and one token consumed, by an agent  *)
(* no row had.                                                             *)
LEMMA CommitKeeps ==
    ASSUME ServerInv, NEW r \in reqs, Commit(r) \/ CommitUnheard(r)
    PROVE  ServerInv' /\ rows \subseteq rows'
  <1>. USE DEF ServerInv
  <1>. DEFINE w == [id |-> r.id, key |-> r.key]
              consumed == {t \in Tokens : tokens[t] = "consumed"}
  <1>1. PICK ans \in {200, 503} : Advance(r, "done", ans)
    BY DEF Commit, CommitUnheard
  <1>2. /\ r.st = "locked" /\ rows' = rows \cup {w}
        /\ tokens' = [tokens EXCEPT ![r.tok] = "consumed"]
        /\ by' = [by EXCEPT ![r.tok] = r.id]
    BY DEF Commit, CommitUnheard, Committed
  <1>3. /\ reqs' \subseteq Request /\ IsFiniteSet(reqs')
        /\ \A s \in reqs' : \/ s \in reqs /\ s # r
                            \/ /\ s.id = r.id /\ s.tok = r.tok /\ s.key = r.key
                               /\ s.st = "done" /\ s.ans = ans
        /\ \A s, t \in reqs' : (s \notin reqs \/ s = r) /\ (t \notin reqs \/ t = r) => s = t
    BY <1>1, AdvanceLemma
  <1>4. /\ r.id \in Nat /\ r.tok \in Tokens /\ r.key \in Nat
        /\ w \in Row /\ w.id = r.id /\ w.key = r.key
        /\ tokens[r.tok] = "issued" /\ \A x \in rows : x.id # r.id
    BY <1>2 DEF ServerTyped, Request, Row, RowLock, Transactions
  <1>. HIDE DEF w
  <1>5. ServerTyped'
    <2>1. IsFiniteSet(rows')
      BY <1>2, FS_AddElement DEF ServerTyped
    <2>. QED  BY <1>2, <1>3, <1>4, <2>1 DEF ServerTyped
  <1>6. OwnIds'
    BY <1>3 DEF OwnIds
  <1>7. RowLock'
    <2>1. \A s \in reqs' : s.st = "locked" => s \in reqs /\ s # r
      BY <1>3
    <2>2. \A s \in reqs' : s.st = "locked" => s.tok # r.tok /\ s.tok \in Tokens
      BY <1>2, <1>3, <2>1 DEF RowLock, Request
    <2>. QED  BY <1>2, <2>1, <2>2 DEF RowLock, ServerTyped
  <1>8. Transactions'
    <2>1. ASSUME NEW s \in reqs', NEW x \in rows', s.st # "done"
          PROVE  x.id # s.id
      BY <1>2, <1>3, <1>4, <2>1 DEF Transactions, OwnIds
    <2>2. ASSUME NEW s \in reqs', s.st = "done", s.ans = 200
          PROVE  [id |-> s.id, key |-> s.key] \in rows'
      BY <1>2, <1>3, <2>2 DEF Transactions, w
    <2>. QED  BY <2>1, <2>2 DEF Transactions
  <1>9. OneAgentPerToken'
    <2>1. consumed' = consumed \cup {r.tok} /\ r.tok \notin consumed
      BY <1>2, <1>4 DEF ServerTyped
    <2>2. IsFiniteSet(consumed) /\ IsFiniteSet(rows) /\ w \notin rows
      <3>1. IsFiniteSet(Tokens)
        BY FS_Interval, BoundsAssumption DEF Tokens
      <3>. QED  BY <1>4, <3>1, FS_Subset DEF ServerTyped
    <2>. HIDE DEF consumed
    <2>3. Cardinality(consumed') = Cardinality(consumed) + 1
      <3>1. Cardinality(consumed \cup {r.tok}) = Cardinality(consumed) + 1
        BY <2>1, <2>2, OneMore, Zenon
      <3>. QED  BY <2>1, <3>1
    <2>4. Cardinality(rows') = Cardinality(rows) + 1
      <3>1. rows' = rows \cup {w}
        BY <1>2
      <3>. HIDE DEF w
      <3>2. Cardinality(rows \cup {w}) = Cardinality(rows) + 1
        BY <2>2, OneMore, Zenon
      <3>. QED  BY <3>1, <3>2
    <2>5. /\ Cardinality(rows) = 1 + Cardinality(consumed)
          /\ \A t \in consumed : by[t] # Old.id /\ \E x \in rows : x.id = by[t]
          /\ \A t, u \in consumed : by[t] = by[u] => t = u
      BY DEF OneAgentPerToken, consumed
    <2>6. \A t \in consumed' : by'[t] = IF t = r.tok THEN r.id ELSE by[t]
      BY <1>2, <2>1 DEF ServerTyped, consumed
    <2>7. Cardinality(rows') = 1 + Cardinality(consumed')
      <3>1. Cardinality(rows) \in Nat /\ Cardinality(consumed) \in Nat
        BY <2>2, FS_CardinalityType
      <3>. QED  BY <2>3, <2>4, <2>5, <3>1
    <2>8. \A t \in consumed' : by'[t] # Old.id /\ \E x \in rows' : x.id = by'[t]
      BY <1>2, <1>4, <2>1, <2>5, <2>6
    <2>9. \A t, u \in consumed' : by'[t] = by'[u] => t = u
      BY <1>4, <2>1, <2>5, <2>6
    <2>. QED  BY <2>7, <2>8, <2>9 DEF OneAgentPerToken, consumed
  <1>. QED  BY <1>2, <1>5, <1>6, <1>7, <1>8, <1>9

(* A request goes out under an id of its own.                              *)
LEMMA SendKeeps ==
    ASSUME ServerInv, HostInv, Send
    PROVE  ServerInv' /\ Awaited'
  <1>. USE DEF ServerInv, HostInv
  <1>. DEFINE id == Fresh(Ids)
              n == [id |-> id, tok |-> cfg, key |-> kp, st |-> "sent", ans |-> 0]
  <1>1. id \in Nat \ {0} /\ id \notin Ids
    BY NumbersFinite, FreshLemma
  <1>2. /\ reqs' = reqs \cup {n} /\ cur' = id /\ pc = "send"
        /\ UNCHANGED <<rows, tokens, by, kp>>
    BY DEF Send
  <1>3. n \in Request
    BY <1>1, <1>2 DEF HostTyped, Request, States, Answers
  <1>4. (\A r \in reqs : r.id # id) /\ (\A x \in rows : x.id # id)
    BY <1>1 DEF Ids
  <1>5. PICK i : i = id
    OBVIOUS
  <1>6. n.id = i /\ n.st = "sent" /\ n.key = kp
    BY <1>5
  <1>. HIDE DEF n, id
  <1>7. ServerTyped'
    <2>1. IsFiniteSet(reqs')
      BY <1>2, FS_AddElement DEF ServerTyped
    <2>. QED  BY <1>2, <1>3, <2>1 DEF ServerTyped
  <1>8. OwnIds' /\ RowLock'
    BY <1>2, <1>4, <1>5, <1>6 DEF OwnIds, RowLock
  <1>9. Transactions'
    BY <1>2, <1>4, <1>5, <1>6 DEF Transactions
  <1>10. OneAgentPerToken'
    BY <1>2 DEF OneAgentPerToken
  <1>11. Awaited'
    BY <1>2, <1>4, <1>6 DEF Awaited
  <1>. QED  BY <1>2, <1>7, <1>8, <1>9, <1>10, <1>11

-----------------------------------------------------------------------------
(* The host.                                                               *)

(* The agent's state stays while the server goes on.                       *)
LEMMA HostKept ==
    ASSUME HostInv, UNCHANGED <<mode, file, cfg, pc, kp, cur, mem>>, rows \subseteq rows',
           \A r \in reqs' : \E s \in reqs : r.id = s.id /\ r.key = s.key
    PROVE  HostInv'
  <1>. USE DEF HostInv
  <1>1. HostTyped'
    BY DEF HostTyped
  <1>2. Awaited'
    BY DEF Awaited
  <1>3. OnDisk' /\ InMemory'
    BY DEF OnDisk, InMemory, Installed, Consistent
  <1>. QED  BY <1>1, <1>2, <1>3

(* An end forgets what was in memory; what is on disk was registered.      *)
LEMMA EndKeeps ==
    ASSUME HostInv, NEW c, Exit(c), UNCHANGED <<cfg, rows>>, file' \in [Files -> File], OnDisk'
    PROVE  HostInv'
  <1>. USE DEF HostInv
  <1>1. NoIdentity \in [id : Nat, key : Nat, cert : File]
    BY DEF NoIdentity, Absent, File
  <1>2. HostTyped'
    BY <1>1 DEF HostTyped, Exit
  <1>3. Awaited' /\ InMemory'
    BY DEF Exit, Awaited, InMemory
  <1>. QED  BY <1>2, <1>3

(* A round that was not served keeps the token and forgets the key, or     *)
(* sends again.                                                            *)
LEMMA AgainKeeps ==
    ASSUME HostInv, pc = "wait", Again, UNCHANGED <<mode, file, cfg, rows>>
    PROVE  HostInv'
  <1>. USE DEF HostInv
  <1>1. OnDisk' /\ file' \in [Files -> File]
    BY DEF OnDisk, HostTyped
  <1>2. CASE Exit(4)
    BY <1>1, <1>2, EndKeeps
  <1>3. CASE pc' \in {"send", "roundwait"} /\ kp' \in {0, kp} /\ mem' = mem
    <2>1. HostTyped'
      BY <1>1, <1>3 DEF HostTyped
    <2>2. Awaited' /\ InMemory'
      BY <1>3 DEF Awaited, InMemory
    <2>. QED  BY <1>1, <2>1, <2>2
  <1>. QED  BY <1>2, <1>3 DEF Again

(* Steps up to the request.                                                *)
LEMMA BeforeRequestKeeps ==
    ASSUME ServerInv, HostInv, Start \/ Check \/ Load \/ BeginExchange \/ RoundWait
    PROVE  HostInv' /\ UNCHANGED server
  <1>. USE DEF HostInv
  <1>1. UNCHANGED <<mode, file, cfg, reqs, rows, tokens, by>>
    BY DEF Start, Check, Load, BeginExchange, RoundWait, host, server
  <1>. SUFFICES HostInv'
    BY <1>1 DEF server
  <1>2. OnDisk' /\ file' \in [Files -> File]
    BY <1>1 DEF OnDisk, HostTyped
  <1>3. ASSUME NEW c, Exit(c) PROVE HostInv'
    BY <1>1, <1>2, <1>3, EndKeeps
  <1>4. ASSUME pc' \in {"check", "round"}, UNCHANGED <<kp, mem>> PROVE HostInv'
    BY <1>1, <1>2, <1>4 DEF HostTyped, Awaited, InMemory
  <1>5. CASE Start \/ RoundWait
    BY <1>4, <1>5 DEF Start, RoundWait
  <1>6. CASE Check
    BY <1>3, <1>4, <1>6 DEF Check
  <1>7. CASE Load
    <2>1. CASE Loadable /\ pc' = "ready" /\ kp' = kp
               /\ mem' = [id |-> file["ident"].id, key |-> file["key"].key, cert |-> file["cert"]]
      <3>1. file["ident"] \in File /\ file["key"] \in File /\ file["cert"] \in File
        BY DEF HostTyped, Files
      <3>2. /\ mem' \in [id : Nat, key : Nat, cert : File]
            /\ mem'.id = file["ident"].id /\ mem'.key = file["key"].key /\ mem'.cert = file["cert"]
        <4>1. file["ident"].id \in Nat /\ file["key"].key \in Nat
          BY <3>1 DEF File
        <4>. QED  BY <2>1, <3>1, <4>1
      <3>3. HostTyped'
        BY <1>1, <1>2, <2>1, <3>2 DEF HostTyped
      <3>4. [id |-> mem'.id, key |-> mem'.key] \in rows'
        BY <1>1, <2>1, <3>2 DEF Loadable, OnDisk
      <3>5. Installed' => Consistent(mem.cert, mem.key, mem.id)'
        BY <1>1, <2>1, <3>2 DEF Loadable, Installed, Consistent
      <3>6. Awaited'
        BY <2>1 DEF Awaited
      <3>7. InMemory'
        BY <3>4, <3>5 DEF InMemory
      <3>. QED  BY <1>2, <3>3, <3>6, <3>7
    <2>. QED  BY <1>3, <1>7, <2>1 DEF Load
  <1>8. CASE BeginExchange
    <2>1. CASE cfg # 0 /\ pc' = "send" /\ kp' = Fresh(Keys) /\ mem' = mem
      <3>1. kp' \in Nat
        BY <2>1, NumbersFinite, FreshLemma DEF ServerInv
      <3>2. HostTyped'
        BY <1>1, <2>1, <3>1 DEF HostTyped
      <3>3. Awaited' /\ InMemory'
        BY <2>1 DEF Awaited, InMemory
      <3>. QED  BY <1>2, <3>2, <3>3
    <2>. QED  BY <1>3, <1>8, <2>1 DEF BeginExchange
  <1>. QED  BY <1>1, <1>5, <1>6, <1>7, <1>8 DEF server

(* The answer, or none.                                                    *)
LEMMA AnswerKeeps ==
    ASSUME ServerInv, HostInv, Answer \/ NoAnswer \/ Malformed \/ Timeout \/ Untrusted
    PROVE  HostInv' /\ reqs' \subseteq reqs /\ UNCHANGED <<rows, tokens, by>>
  <1>. USE DEF HostInv
  <1>1. /\ UNCHANGED <<mode, file, cfg, rows, tokens, by>>
        /\ reqs' \subseteq reqs /\ pc = "wait"
    BY DEF Answer, NoAnswer, Malformed, Timeout, Untrusted, host, server
  <1>. SUFFICES HostInv'
    BY <1>1
  <1>2. OnDisk' /\ file' \in [Files -> File]
    BY <1>1 DEF OnDisk, HostTyped
  <1>3. ASSUME NEW c, Exit(c) PROVE HostInv'
    BY <1>1, <1>2, <1>3, EndKeeps
  <1>4. CASE Answer
    <2>1. PICK r \in reqs :
            /\ r.id = cur /\ r.st = "done"
            /\ \/ /\ r.ans = 200 /\ pc' = "persist" /\ kp' = kp
                  /\ mem' = [id |-> r.id, key |-> kp, cert |-> SetOf(r.id, r.key)["cert"]]
               \/ Exit(3)
               \/ Again
      BY <1>4 DEF Answer
    <2>2. CASE /\ r.ans = 200 /\ pc' = "persist" /\ kp' = kp
               /\ mem' = [id |-> r.id, key |-> kp, cert |-> SetOf(r.id, r.key)["cert"]]
      <3>1. r.key = kp /\ r.id \in Nat /\ r.key \in Nat
        BY <1>1, <2>1 DEF Awaited, ServerInv, ServerTyped, Request
      <3>2. SetOf(r.id, r.key)["cert"] = [is |-> "whole", id |-> r.id, key |-> r.key]
        BY DEF SetOf, Files
      <3>3. mem' = [id |-> r.id, key |-> r.key, cert |-> [is |-> "whole", id |-> r.id, key |-> r.key]]
        BY <2>2, <3>1, <3>2
      <3>4. mem' \in [id : Nat, key : Nat, cert : File]
        BY <3>1, <3>3 DEF File
      <3>5. HostTyped'
        BY <1>1, <1>2, <2>2, <3>4 DEF HostTyped
      <3>6. [id |-> mem'.id, key |-> mem'.key] \in rows'
        BY <1>1, <2>1, <2>2, <3>3 DEF ServerInv, Transactions
      <3>7. Consistent(mem.cert, mem.key, mem.id)'
        BY <3>3 DEF Consistent
      <3>8. Awaited'
        BY <2>2 DEF Awaited
      <3>9. InMemory'
        BY <3>6, <3>7 DEF InMemory
      <3>. QED  BY <1>2, <3>5, <3>8, <3>9
    <2>. QED  BY <1>1, <1>3, <2>1, <2>2, AgainKeeps
  <1>5. CASE NoAnswer \/ Timeout
    BY <1>1, <1>5, AgainKeeps DEF NoAnswer, Timeout
  <1>6. CASE Malformed \/ Untrusted
    BY <1>3, <1>6 DEF Malformed, Untrusted
  <1>. QED  BY <1>1, <1>4, <1>5, <1>6

(* A file of the set is written with the identity in memory, left torn or  *)
(* left as it was: identity.json, if whole, still says what was registered.*)
LEMMA WriteLemma ==
    ASSUME HostInv, pc = "persist", NEW k \in 1..3, NEW v \in {SetOf(mem.id, mem.key)[Order[k]], Torn},
           file' = [file EXCEPT ![Order[k]] = v], rows' = rows
    PROVE  file' \in [Files -> File] /\ OnDisk'
  <1>. USE DEF HostInv
  <1>1. Order[k] \in Files /\ "ident" \in Files /\ (Order[k] = "ident" => k = 3)
    BY DEF Order, Files
  <1>2. mem.id \in Nat /\ mem.key \in Nat /\ [id |-> mem.id, key |-> mem.key] \in rows
    BY DEF HostTyped, InMemory
  <1>3. PICK f \in Files : f = Order[k]
    BY <1>1
  <1>4. SetOf(mem.id, mem.key)[f] = [is |-> "whole", id |-> IF f = "key" THEN 0 ELSE mem.id, key |-> mem.key]
    BY DEF SetOf
  <1>5. v \in File
    <2>1. CASE v = Torn
      BY <2>1 DEF Torn, File
    <2>2. CASE v = SetOf(mem.id, mem.key)[f]
      BY <1>2, <1>4, <2>2 DEF File
    <2>. QED  BY <1>3, <2>1, <2>2
  <1>6. file' \in [Files -> File]
    BY <1>3, <1>5 DEF HostTyped
  <1>7. OnDisk'
    <2>1. CASE f = "ident"
      <3>1. file'["ident"] = v
        BY <1>1, <1>3, <2>1 DEF HostTyped
      <3>2. CASE v = Torn
        BY <3>1, <3>2 DEF OnDisk, Torn
      <3>3. CASE v = SetOf(mem.id, mem.key)[f]
        <4>1. v.id = mem.id /\ v.key = mem.key
          BY <1>4, <2>1, <3>3
        <4>. QED  BY <1>2, <3>1, <4>1 DEF OnDisk
      <3>. QED  BY <1>3, <3>2, <3>3
    <2>2. CASE f # "ident"
      <3>1. file'["ident"] = file["ident"]
        BY <1>1, <1>3, <2>2 DEF HostTyped
      <3>. QED  BY <3>1 DEF OnDisk
    <2>. QED  BY <2>1, <2>2
  <1>. QED  BY <1>6, <1>7

(* Persisting, the access to the files, and the token's removal.           *)
LEMMA PersistKeeps ==
    ASSUME HostInv, EnsureDirectory \/ CreateNew \/ Write \/ Harden \/ PersistFails \/ Hygiene
    PROVE  HostInv' /\ UNCHANGED server
  <1>. USE DEF HostInv
  <1>1. UNCHANGED <<mode, reqs, rows, tokens, by>> /\ pc \in {"persist", "hygiene"}
    BY DEF EnsureDirectory, CreateNew, Write, Harden, PersistFails, Hygiene, server
  <1>. SUFFICES HostInv'
    BY <1>1 DEF server
  <1>2. ASSUME file' = file PROVE OnDisk' /\ file' \in [Files -> File]
    BY <1>1, <1>2 DEF OnDisk, HostTyped
  <1>3. ASSUME pc' \in {"persist", "hygiene", "ready"}, mem' = mem, kp' \in {0, kp}, cfg' \in {0, cfg},
               file' \in [Files -> File], OnDisk'
        PROVE  HostInv'
    <2>1. HostTyped'
      BY <1>3 DEF HostTyped
    <2>2. Awaited'
      BY <1>3 DEF Awaited
    <2>3. InMemory'
      BY <1>1, <1>3 DEF InMemory, Installed, Consistent
    <2>. QED  BY <1>3, <2>1, <2>2, <2>3
  <1>4. ASSUME NEW c, Exit(c), cfg' = cfg, file' \in [Files -> File], OnDisk'
        PROVE  HostInv'
    BY <1>1, <1>4, EndKeeps
  <1>5. CASE EnsureDirectory
    BY <1>2, <1>3, <1>5 DEF EnsureDirectory
  <1>6. CASE CreateNew
    <2>1. CASE file' = file /\ Exit(5)
      BY <1>2, <1>4, <1>6, <2>1 DEF CreateNew
    <2>2. CASE /\ file' = [file EXCEPT ![Order[step]] = NewFile]
               /\ pc' = (IF step = 3 THEN "hygiene" ELSE "persist")
               /\ UNCHANGED <<kp, mem>>
      <3>1. file' \in [Files -> File] /\ OnDisk'
        BY <1>1, <1>6, <2>2, WriteLemma DEF CreateNew, NewFile
      <3>. QED  BY <1>3, <1>6, <2>2, <3>1 DEF CreateNew
    <2>. QED  BY <1>6, <2>1, <2>2 DEF CreateNew
  <1>7. CASE Write
    <2>1. file' \in [Files -> File] /\ OnDisk'
      BY <1>1, <1>7, WriteLemma DEF Write, NewFile
    <2>. QED  BY <1>3, <1>7, <2>1 DEF Write
  <1>8. CASE Harden
    BY <1>2, <1>3, <1>4, <1>8 DEF Harden
  <1>9. CASE PersistFails
    <2>1. CASE file' = file
      BY <1>2, <1>4, <1>9, <2>1 DEF PersistFails
    <2>2. CASE step > 0 /\ file' = [file EXCEPT ![Order[step]] = Torn]
      <3>1. step \in 1..3 /\ pc = "persist"
        BY <1>9, <2>2 DEF PersistFails
      <3>2. file' \in [Files -> File] /\ OnDisk'
        BY <1>1, <2>2, <3>1, WriteLemma
      <3>. QED  BY <1>4, <1>9, <3>2 DEF PersistFails
    <2>. QED  BY <1>9, <2>1, <2>2 DEF PersistFails
  <1>10. CASE Hygiene
    BY <1>2, <1>3, <1>10 DEF Hygiene
  <1>. QED  BY <1>1, <1>5, <1>6, <1>7, <1>8, <1>9, <1>10 DEF server

(* The ends and the operator.                                              *)
LEMMA OperatorKeeps ==
    ASSUME ServerInv, HostInv,
           \/ Stop \/ Crash \/ Remove
           \/ \E S \in SUBSET Files \ {{}} : Restore(S)
    PROVE  HostInv' /\ reqs' \subseteq reqs /\ UNCHANGED <<rows, tokens, by>>
  <1>. USE DEF HostInv
  <1>1. UNCHANGED <<mode, cfg, rows, tokens, by>> /\ reqs' \subseteq reqs
    BY DEF Stop, Crash, Remove, Restore, host, server, Abandon
  <1>. SUFFICES HostInv'
    BY <1>1
  <1>2. ASSUME file' = file PROVE OnDisk' /\ file' \in [Files -> File]
    BY <1>1, <1>2 DEF OnDisk, HostTyped
  <1>3. CASE Stop
    BY <1>1, <1>2, <1>3, EndKeeps DEF Stop, host
  <1>4. CASE Crash
    <2>1. CASE file' = file
      BY <1>1, <1>2, <1>4, <2>1, EndKeeps DEF Crash
    <2>2. CASE pc = "persist" /\ step \in 1..3 /\ file' = [file EXCEPT ![Order[step]] = Torn]
      <3>1. file' \in [Files -> File] /\ OnDisk'
        BY <1>1, <2>2, WriteLemma
      <3>. QED  BY <1>1, <1>4, <3>1, EndKeeps DEF Crash
    <2>. QED  BY <1>4, <2>1, <2>2 DEF Crash
  <1>5. ASSUME UNCHANGED <<pc, kp, cur, mem>>, reqs' = reqs, file' \in [Files -> File], OnDisk'
        PROVE  HostInv'
    <2>1. HostTyped' /\ Awaited'
      BY <1>1, <1>5 DEF HostTyped, Awaited
    <2>2. InMemory'
      BY <1>1, <1>5 DEF InMemory, Installed, Consistent
    <2>. QED  BY <1>5, <2>1, <2>2
  <1>6. Absent \in File /\ Absent.is = "absent" /\ "ident" \in Files
    BY DEF Absent, File, Files
  <1>7. CASE Remove
    <2>1. UNCHANGED <<pc, kp, cur, mem>> /\ reqs' = reqs
      BY <1>7 DEF Remove, agent, server
    <2>2. file \in [Files -> File]
      BY DEF HostTyped
    <2>3. /\ file' \in [Files -> File]
          /\ file'["ident"] = file["ident"] \/ file'["ident"] = Absent
      BY <1>6, <1>7, <2>2 DEF Remove
    <2>4. OnDisk'
      BY <1>1, <1>6, <2>3 DEF OnDisk
    <2>. QED  BY <1>5, <2>1, <2>3, <2>4
  <1>8. ASSUME NEW S \in SUBSET Files \ {{}}, Restore(S) PROVE HostInv'
    <2>1. UNCHANGED <<pc, kp, cur, mem>> /\ reqs' = reqs
      BY <1>8 DEF Restore, agent, server
    <2>2. Old.id = 1 /\ Old.key = 1 /\ Old = [id |-> 1, key |-> 1] /\ Old \in rows
      BY DEF Old, ServerInv
    <2>3. SetOf(Old.id, Old.key) \in [Files -> File]
      BY <2>2 DEF SetOf, File
    <2>4. SetOf(Old.id, Old.key)["ident"] = [is |-> "whole", id |-> 1, key |-> 1]
      BY <2>2 DEF SetOf, Files
    <2>5. /\ file' \in [Files -> File]
          /\ file'["ident"] = file["ident"] \/ file'["ident"] = SetOf(Old.id, Old.key)["ident"]
      BY <1>6, <1>8, <2>3 DEF Restore, HostTyped
    <2>6. OnDisk'
      BY <1>1, <2>2, <2>4, <2>5 DEF OnDisk
    <2>. QED  BY <1>5, <2>1, <2>5, <2>6
  <1>. QED  BY <1>1, <1>3, <1>4, <1>7, <1>8

-----------------------------------------------------------------------------

(* Every step keeps the invariant.                                         *)
LEMMA EnrollStep == EnrollInv /\ [Next]_vars => EnrollInv'
  <1>. SUFFICES ASSUME EnrollInv, [Next]_vars PROVE EnrollInv'
    OBVIOUS
  <1>. USE DEF EnrollInv
  <1>1. ASSUME HostInv', reqs' \subseteq reqs, UNCHANGED <<rows, tokens, by>>
        PROVE  EnrollInv'
    BY <1>1, FewerRequests
  <1>2. CASE Start \/ Check \/ Load \/ BeginExchange \/ RoundWait
    BY <1>1, <1>2, BeforeRequestKeeps DEF server
  <1>3. CASE Answer \/ NoAnswer \/ Malformed \/ Timeout \/ Untrusted
    BY <1>1, <1>3, AnswerKeeps
  <1>4. CASE EnsureDirectory \/ CreateNew \/ Write \/ Harden \/ PersistFails \/ Hygiene
    BY <1>1, <1>4, PersistKeeps DEF server
  <1>5. CASE Stop \/ Crash \/ Remove \/ \E S \in SUBSET Files \ {{}} : Restore(S)
    BY <1>1, <1>5, OperatorKeeps
  <1>6. CASE Send
    <2>1. ServerInv' /\ Awaited'
      BY <1>6, SendKeeps
    <2>2. UNCHANGED <<mode, file, cfg, mem, kp, rows>> /\ pc = "send" /\ pc' = "wait"
      BY <1>6 DEF Send, host
    <2>3. HostTyped' /\ OnDisk' /\ InMemory'
      BY <2>2 DEF HostInv, HostTyped, OnDisk, InMemory
    <2>. QED  BY <2>1, <2>3 DEF HostInv
  <1>7. ASSUME NEW r \in reqs, Arrive(r) \/ Consume(r) \/ ServerError(r) \/ Commit(r) \/ CommitUnheard(r)
        PROVE  EnrollInv'
    <2>1. ServerInv' /\ rows \subseteq rows'
      <3>1. CASE Arrive(r) \/ Consume(r) \/ ServerError(r)
        BY <3>1, AdvanceKeeps DEF Arrive, Consume, ServerError
      <3>2. CASE Commit(r) \/ CommitUnheard(r)
        BY <3>2, CommitKeeps
      <3>. QED  BY <1>7, <3>1, <3>2
    <2>2. UNCHANGED <<mode, file, cfg, pc, kp, cur, mem>>
      BY <1>7 DEF Arrive, Consume, ServerError, Commit, CommitUnheard, host, agent
    <2>3. PICK st \in {"open", "locked", "done"}, ans \in {0, 200, 401, 409, 503} : Advance(r, st, ans)
      BY <1>7 DEF Arrive, Consume, ServerError, Commit, CommitUnheard
    <2>4. \A s \in reqs' : \E u \in reqs : s.id = u.id /\ s.key = u.key
      BY <2>3, AdvanceLemma DEF ServerInv
    <2>. QED  BY <2>1, <2>2, <2>4, HostKept
  <1>8. ASSUME NEW r \in reqs, LoseRequest(r) PROVE EnrollInv'
    <2>1. UNCHANGED <<mode, file, cfg, pc, kp, cur, mem, rows, tokens, by>> /\ reqs' \subseteq reqs
      BY <1>8 DEF LoseRequest, host, agent
    <2>. QED  BY <1>1, <2>1, HostKept
  <1>9. ASSUME NEW t \in Tokens, Expire(t) PROVE EnrollInv'
    <2>1. UNCHANGED <<mode, file, cfg, pc, kp, cur, mem, reqs, rows>>
      BY <1>9 DEF Expire, host, agent
    <2>2. ServerInv'
      BY <1>9, TokenRow DEF Expire
    <2>. QED  BY <2>1, <2>2, HostKept
  <1>10. ASSUME NEW t \in Tokens, NewToken(t) PROVE EnrollInv'
    <2>1. /\ UNCHANGED <<mode, file, pc, kp, cur, mem, reqs, rows, by>>
          /\ cfg' = t /\ pc = "off" /\ tokens[t] = "unissued"
          /\ tokens' = [tokens EXCEPT ![t] = "issued"]
      BY <1>10 DEF NewToken, agent
    <2>2. \A r \in reqs : r.tok = t => r.st # "locked"
      BY <2>1 DEF ServerInv, RowLock
    <2>3. ServerInv'
      BY <2>1, <2>2, TokenRow
    <2>4. 0 \notin Tokens
      BY DEF Tokens
    <2>5. HostTyped' /\ Awaited' /\ OnDisk' /\ InMemory'
      BY <2>1, <2>4 DEF HostInv, HostTyped, Awaited, OnDisk, InMemory
    <2>. QED  BY <2>3, <2>5 DEF HostInv
  <1>11. CASE Calm \/ UNCHANGED vars
    <2>1. UNCHANGED <<mode, file, cfg, pc, kp, cur, mem, reqs, rows, tokens, by>>
      BY <1>11 DEF Calm, vars, host, agent, server
    <2>. QED  BY <1>1, <2>1, HostKept
  <1>. QED  BY <1>2, <1>3, <1>4, <1>5, <1>6, <1>7, <1>8, <1>9, <1>10, <1>11
            DEF Next, AgentStep, ServerStep, Fault, Operator

(* The identity an agent runs with is a row of the agents table with its   *)
(* key, and the installed service's certificate is that enrollment's       *)
(* (identity.rs, load_identity and check_consistency), through every       *)
(* crash, lost answer, removed file and restored backup.                   *)
THEOREM IdentitySound == Spec => []IdentityRegistered
  <1>1. EnrollInv => IdentityRegistered
    BY DEF EnrollInv, HostInv, InMemory, IdentityRegistered
  <1>. QED  BY <1>1, EnrollInit, EnrollStep, PTL DEF Spec

(* A token makes one agent, for any number of overlapping requests         *)
(* (routes/enroll.ts, the UPDATE's row lock inside the transaction).       *)
THEOREM OneAgent == Spec => []OneAgentPerToken
  <1>1. EnrollInv => OneAgentPerToken
    BY DEF EnrollInv, ServerInv
  <1>. QED  BY <1>1, EnrollInit, EnrollStep, PTL DEF Spec

-----------------------------------------------------------------------------
(* What the upsets cost.                                                   *)

Consumed == {t \in Tokens : tokens[t] = "consumed"}

(* The identity of token t is complete on disk.                            *)
Stored(t) == Loadable /\ file["ident"].id = by[t] /\ file["cert"].id = by[t]

(* An exchange is under way, or the round is about to begin one.           *)
Exchanging == pc \in {"send", "wait", "roundwait"}
Asking == Exchanging \/ (pc = "round" /\ ~IsEnrolled)

(* The three files are being written.                                      *)
Writing == pc = "persist" /\ step <= 3

(* The service's CREATE_NEW finds no file; the console overwrites.         *)
Clean == Installed => \A f \in Files : file[f] = Absent

(* What was written is there, and nothing is in the way of the rest.       *)
OnCourse ==
    /\ \A k \in 1..3 : k < step => file[Order[k]] = SetOf(mem.id, mem.key)[Order[k]]
    /\ Installed => /\ step > 0 => dir
                    /\ \A k \in 1..3 : k >= step => file[Order[k]] = Absent

(* The agent of token t keeps its identity unless something else happens.  *)
Answered(t) ==
    /\ pc = "wait" /\ Clean
    /\ \E r \in reqs : r.id = cur /\ r.id = by[t] /\ r.tok = t /\ r.st = "done" /\ r.ans = 200
Persisting(t) == Writing /\ mem.id = by[t] /\ OnCourse
Safe(t) == Stored(t) \/ Answered(t) \/ Persisting(t)

(* The losses: tokens whose agent will not have its identity, requests     *)
(* that may still consume one with nobody to hear it, and the exchange     *)
(* whose answer cannot be persisted.                                       *)
Lost == {t \in Consumed : ~Safe(t)}
Open == {r \in reqs : r.st # "done" /\ r.id # cur}
Unheard == {r.id : r \in Open}
Doomed == Asking /\ cfg # 0 /\ tokens[cfg] = "issued" /\ ~Clean

(* Each upset pays for one of them.                                        *)
Budget == Cardinality(Lost) + Cardinality(Unheard) + (IF Doomed THEN 1 ELSE 0) <= upsets

(* A directory that is not there holds no file.                            *)
Housed == Installed /\ ~dir => \A f \in Files : file[f] = Absent

(* The backup's key is of no other enrollment; no agent has number 0.      *)
OldKey ==
    /\ \A w \in rows : w.id # 0 /\ (w.key = Old.key => w.id = Old.id)
    /\ \A r \in reqs : r.key # Old.key /\ r.id # 0
    /\ pc \in {"send", "wait"} => kp # Old.key

(* The awaited request is for the configured token, and its id is new.     *)
Asked ==
    /\ cur # 0 => pc = "wait"
    /\ \A r \in reqs : r.id = cur => r.tok = cfg
    /\ pc = "wait" => /\ cur # 0 /\ cur # Old.id
                      /\ file["ident"].is = "whole" => file["ident"].id # cur

(* While the files are written identity.json is not the new one, and the   *)
(* certificate is, unless it was removed or replaced.                      *)
NewSet ==
    Writing => /\ mem.id # Old.id
               /\ file["ident"].is = "whole" => file["ident"].id # mem.id
               /\ step > 1 => file["cert"].id \in {mem.id, Old.id, 0}

(* An exchange begins without a complete set, and until the files are      *)
(* written none comes to be.                                               *)
NoneStored == Exchanging \/ Writing => \A t \in Consumed : ~Stored(t)

CourseInv ==
    /\ upsets \in Nat /\ step \in 0..7
    /\ Housed /\ OldKey /\ Asked /\ NewSet /\ NoneStored

(* Losses are counted in finite sets.                                      *)
LEMMA LossesFinite ==
    ASSUME ServerTyped
    PROVE  /\ IsFiniteSet(Lost) /\ Cardinality(Lost) \in Nat
           /\ IsFiniteSet(Unheard) /\ Cardinality(Unheard) \in Nat
  <1>1. IsFiniteSet(Tokens) /\ Lost \subseteq Tokens
    BY FS_Interval, BoundsAssumption DEF Tokens, Lost, Consumed
  <1>2. IsFiniteSet(Lost)
    BY <1>1, FS_Subset
  <1>3. IsFiniteSet(Open)
    <2>1. Open \subseteq reqs
      BY DEF Open
    <2>. QED  BY <2>1, FS_Subset DEF ServerTyped
  <1>4. PICK f : f = [r \in Open |-> r.id]
    OBVIOUS
  <1>5. f = [r \in Open |-> f[r]] /\ Unheard = {f[r] : r \in Open}
    BY <1>4 DEF Unheard
  <1>6. IsFiniteSet(Unheard)
    <2>1. IsFiniteSet({f[r] : r \in Open})
      BY <1>3, <1>5, ImageFinite
    <2>. QED  BY <1>5, <2>1
  <1>. QED  BY <1>2, <1>6, FS_CardinalityType

(* A subset of a finite set has no more elements.                          *)
LEMMA NoMore ==
    ASSUME NEW S, IsFiniteSet(S), NEW T, T \subseteq S
    PROVE  Cardinality(T) \in Nat /\ Cardinality(S) \in Nat /\ Cardinality(T) <= Cardinality(S)
  BY FS_Subset, FS_CardinalityType

(* What is within a set and one element has at most one element more.      *)
LEMMA AtMostOneMore ==
    ASSUME NEW S, IsFiniteSet(S), NEW x, NEW T, T \subseteq S \cup {x}
    PROVE  Cardinality(T) \in Nat /\ Cardinality(S) \in Nat /\ Cardinality(T) <= Cardinality(S) + 1
  <1>1. /\ IsFiniteSet(S \cup {x}) /\ Cardinality(S) \in Nat
        /\ Cardinality(S \cup {x}) = IF x \in S THEN Cardinality(S) ELSE Cardinality(S) + 1
    BY FS_AddElement, FS_CardinalityType
  <1>2. Cardinality(T) \in Nat /\ Cardinality(T) <= Cardinality(S \cup {x})
    BY <1>1, NoMore
  <1>. QED  BY <1>1, <1>2

(* A step without a loss.                                                  *)
LEMMA Free ==
    ASSUME ServerTyped, Budget, upsets \in Nat, upsets' = upsets,
           Lost' \subseteq Lost, Unheard' \subseteq Unheard, Doomed' => Doomed
    PROVE  Budget'
  <1>1. /\ Cardinality(Lost) \in Nat /\ Cardinality(Unheard) \in Nat
        /\ IsFiniteSet(Lost) /\ IsFiniteSet(Unheard)
    BY LossesFinite
  <1>2. /\ Cardinality(Lost') \in Nat /\ Cardinality(Lost') <= Cardinality(Lost)
        /\ Cardinality(Unheard') \in Nat /\ Cardinality(Unheard') <= Cardinality(Unheard)
    BY <1>1, NoMore
  <1>. QED  BY <1>1, <1>2 DEF Budget

(* A step that costs an upset, and one token, request or exchange at most. *)
LEMMA Paid ==
    ASSUME ServerTyped, Budget, upsets \in Nat, upsets' = upsets + 1, NEW x,
           \/ Lost' \subseteq Lost \cup {x} /\ Unheard' \subseteq Unheard /\ (Doomed' => Doomed)
           \/ Lost' \subseteq Lost /\ Unheard' \subseteq Unheard \cup {x} /\ (Doomed' => Doomed)
           \/ Lost' \subseteq Lost /\ Unheard' \subseteq Unheard
    PROVE  Budget'
  <1>1. /\ Cardinality(Lost) \in Nat /\ Cardinality(Unheard) \in Nat
        /\ IsFiniteSet(Lost) /\ IsFiniteSet(Unheard)
    BY LossesFinite
  <1>2. CASE Lost' \subseteq Lost \cup {x} /\ Unheard' \subseteq Unheard /\ (Doomed' => Doomed)
    <2>1. /\ Cardinality(Lost') \in Nat /\ Cardinality(Lost') <= Cardinality(Lost) + 1
          /\ Cardinality(Unheard') \in Nat /\ Cardinality(Unheard') <= Cardinality(Unheard)
      BY <1>1, <1>2, NoMore, AtMostOneMore
    <2>. QED  BY <1>1, <1>2, <2>1 DEF Budget
  <1>3. CASE Lost' \subseteq Lost /\ Unheard' \subseteq Unheard \cup {x} /\ (Doomed' => Doomed)
    <2>1. /\ Cardinality(Lost') \in Nat /\ Cardinality(Lost') <= Cardinality(Lost)
          /\ Cardinality(Unheard') \in Nat /\ Cardinality(Unheard') <= Cardinality(Unheard) + 1
      BY <1>1, <1>3, NoMore, AtMostOneMore
    <2>. QED  BY <1>1, <1>3, <2>1 DEF Budget
  <1>4. CASE Lost' \subseteq Lost /\ Unheard' \subseteq Unheard
    <2>1. /\ Cardinality(Lost') \in Nat /\ Cardinality(Lost') <= Cardinality(Lost)
          /\ Cardinality(Unheard') \in Nat /\ Cardinality(Unheard') <= Cardinality(Unheard)
      BY <1>1, <1>4, NoMore
    <2>. QED  BY <1>1, <2>1 DEF Budget
  <1>. QED  BY <1>2, <1>3, <1>4

(* A removal that costs two: a token and the exchange.                     *)
LEMMA PaidTwice ==
    ASSUME ServerTyped, Budget, upsets \in Nat, upsets' = upsets + 2, NEW x,
           Lost' \subseteq Lost \cup {x}, Unheard' \subseteq Unheard
    PROVE  Budget'
  <1>1. /\ Cardinality(Lost) \in Nat /\ Cardinality(Unheard) \in Nat
        /\ IsFiniteSet(Lost) /\ IsFiniteSet(Unheard)
    BY LossesFinite
  <1>2. /\ Cardinality(Lost') \in Nat /\ Cardinality(Lost') <= Cardinality(Lost) + 1
        /\ Cardinality(Unheard') \in Nat /\ Cardinality(Unheard') <= Cardinality(Unheard)
    BY <1>1, NoMore, AtMostOneMore
  <1>. QED  BY <1>1, <1>2 DEF Budget

(* A loss that was foreseen: an unheard request or a doomed exchange       *)
(* becomes a lost token.                                                   *)
LEMMA Foreseen ==
    ASSUME ServerTyped, Budget, upsets \in Nat, upsets' = upsets, NEW x, NEW y,
           Lost' \subseteq Lost \cup {x},
           \/ y \in Unheard /\ Unheard' \subseteq Unheard \ {y} /\ (Doomed' => Doomed)
           \/ Unheard' \subseteq Unheard /\ Doomed /\ ~Doomed'
    PROVE  Budget'
  <1>1. /\ Cardinality(Lost) \in Nat /\ Cardinality(Unheard) \in Nat
        /\ IsFiniteSet(Lost) /\ IsFiniteSet(Unheard)
    BY LossesFinite
  <1>2. Cardinality(Lost') \in Nat /\ Cardinality(Lost') <= Cardinality(Lost) + 1
    BY <1>1, AtMostOneMore
  <1>3. CASE y \in Unheard /\ Unheard' \subseteq Unheard \ {y} /\ (Doomed' => Doomed)
    <2>1. IsFiniteSet(Unheard \ {y}) /\ Cardinality(Unheard \ {y}) = Cardinality(Unheard) - 1
      BY <1>1, <1>3, FS_RemoveElement
    <2>2. Cardinality(Unheard') \in Nat /\ Cardinality(Unheard') <= Cardinality(Unheard) - 1
      BY <1>3, <2>1, NoMore
    <2>. QED  BY <1>1, <1>2, <1>3, <2>2 DEF Budget
  <1>4. CASE Unheard' \subseteq Unheard /\ Doomed /\ ~Doomed'
    <2>1. Cardinality(Unheard') \in Nat /\ Cardinality(Unheard') <= Cardinality(Unheard)
      BY <1>1, <1>4, NoMore
    <2>. QED  BY <1>1, <1>2, <1>4, <2>1 DEF Budget
  <1>. QED  BY <1>3, <1>4

(* At most one consumed token is of agent i.                               *)
LEMMA OneBy ==
    ASSUME ServerInv, NEW i
    PROVE  \E x : \A t \in Consumed : by[t] = i => t = x
  <1>1. \A t, u \in Consumed : by[t] = by[u] => t = u
    BY DEF ServerInv, OneAgentPerToken, Consumed
  <1>2. CASE \E x \in Consumed : by[x] = i
    BY <1>1, <1>2
  <1>3. CASE ~\E x \in Consumed : by[x] = i
    BY <1>3
  <1>. QED  BY <1>2, <1>3

(* A consumed token's agent has a number, and is not the backup's.         *)
LEMMA ByNumbers ==
    ASSUME ServerInv, CourseInv
    PROVE  \A t \in Consumed : by[t] # 0 /\ by[t] # Old.id
  BY DEF ServerInv, OneAgentPerToken, CourseInv, OldKey, Consumed

(* What is on disk stays with the files.                                   *)
LEMMA StoredStays ==
    ASSUME UNCHANGED <<mode, file, by>>, NEW t
    PROVE  Stored(t)' <=> Stored(t)
  BY DEF Stored, Loadable, Installed, Consistent

(* The server goes on, the agent waits or is not there: no request begins, *)
(* and an answer stays until it is read.                                   *)
LEMMA RequestsGoOn ==
    ASSUME EnrollInv, CourseInv, Budget, UNCHANGED <<mode, host, agent, rows, by, upsets>>,
           \A t \in Tokens : /\ tokens'[t] = "consumed" <=> tokens[t] = "consumed"
                             /\ tokens'[t] = "issued" => tokens[t] = "issued",
           \A r \in reqs' : \E s \in reqs : /\ r.id = s.id /\ r.key = s.key /\ r.tok = s.tok
                                            /\ r.st # "done" => s.st # "done",
           \A s \in reqs : s.st = "done" => s \in reqs'
    PROVE  CourseInv' /\ Budget'
  <1>0. /\ UNCHANGED <<mode, file, dir, cfg, pc, kp, cur, step, mem, rows, by, upsets>>
        /\ cfg \in {0} \cup Tokens
    BY DEF host, agent, EnrollInv, HostInv, HostTyped
  <1>1. Consumed' = Consumed
    BY DEF Consumed
  <1>2. \A t : Stored(t)' <=> Stored(t)
    BY <1>0, StoredStays
  <1>3. CourseInv'
    <2>1. Housed' /\ OldKey' /\ NewSet' /\ upsets' \in Nat /\ step' \in 0..7
      BY <1>0 DEF CourseInv, Housed, OldKey, NewSet, Installed, Writing
    <2>2. Asked'
      BY <1>0 DEF CourseInv, Asked
    <2>3. NoneStored'
      BY <1>0, <1>1, <1>2 DEF CourseInv, NoneStored, Exchanging, Writing
    <2>. QED  BY <2>1, <2>2, <2>3 DEF CourseInv
  <1>4. Lost' \subseteq Lost
    <2>1. Clean' = Clean
      BY <1>0 DEF Clean, Installed
    <2>2. \A t : Answered(t) => Answered(t)'
      BY <1>0, <2>1 DEF Answered
    <2>3. \A t : Persisting(t) => Persisting(t)'
      BY <1>0 DEF Persisting, Writing, OnCourse, Installed
    <2>. QED  BY <1>1, <1>2, <2>2, <2>3 DEF Lost, Safe
  <1>5. Unheard' \subseteq Unheard
    BY <1>0 DEF Unheard, Open
  <1>6. Doomed' => Doomed
    BY <1>0 DEF Doomed, Asking, Exchanging, IsEnrolled, Clean, Installed
  <1>. QED  BY <1>0, <1>3, <1>4, <1>5, <1>6, Free DEF CourseInv, EnrollInv, ServerInv

(* A step after which the agent awaits nothing, and that ends neither an   *)
(* answer nor the writing of the files, costs nothing.                     *)
LEMMA NothingLost ==
    ASSUME EnrollInv, CourseInv, Budget, UNCHANGED <<mode, file, tokens, by, upsets>>,
           cur' = 0, reqs' \subseteq reqs, \A r \in reqs' : r.id = cur => r.st = "done",
           \A t \in Consumed : ~Answered(t) /\ ~Persisting(t),
           Doomed' => Doomed
    PROVE  Budget'
  <1>1. Lost' \subseteq Lost
    <2>1. Consumed' = Consumed
      BY DEF Consumed
    <2>2. \A t : Stored(t)' <=> Stored(t)
      BY StoredStays
    <2>. QED  BY <2>1, <2>2 DEF Lost, Safe
  <1>2. Unheard' \subseteq Unheard
    BY DEF Unheard, Open
  <1>. QED  BY <1>1, <1>2, Free DEF CourseInv, EnrollInv, ServerInv

(* An upset ends the wait or the writing: it costs the answer, or leaves   *)
(* the request to go on unheard, or costs what was being written.          *)
LEMMA UpsetPays ==
    ASSUME EnrollInv, CourseInv, Budget, UNCHANGED <<mode, tokens, by>>, upsets' = upsets + 1,
           cur' = 0, reqs' \subseteq reqs, Doomed' => Doomed,
           Writing \/ (pc = "wait" /\ UNCHANGED file)
    PROVE  Budget'
  <1>0. ServerTyped /\ ServerInv /\ OwnIds /\ upsets \in Nat /\ Consumed' = Consumed
    BY DEF EnrollInv, ServerInv, CourseInv, Consumed
  <1>1. CASE Writing
    <2>1. PICK x : \A t \in Consumed : by[t] = mem.id => t = x
      BY <1>0, OneBy
    <2>2. \A t \in Consumed : ~Stored(t) /\ ~Answered(t)
      BY <1>1 DEF CourseInv, NoneStored, Answered, Writing
    <2>3. Lost' \subseteq Lost \cup {x}
      BY <1>0, <2>1, <2>2 DEF Lost, Safe, Persisting
    <2>4. Unheard' \subseteq Unheard
      <3>1. cur = 0
        BY <1>1 DEF CourseInv, Asked, Writing
      <3>. QED  BY <3>1 DEF Unheard, Open
    <2>. QED  BY <1>0, <2>3, <2>4, Paid
  <1>2. CASE pc = "wait" /\ UNCHANGED file
    <2>1. \A t : Stored(t)' <=> Stored(t)
      BY <1>2, StoredStays
    <2>2. \A t : ~Persisting(t)
      BY <1>2 DEF Persisting, Writing
    <2>3. CASE \E r \in reqs : r.id = cur /\ r.st # "done"
      <3>1. \A t : ~Answered(t)
        BY <1>0, <2>3 DEF Answered, OwnIds
      <3>2. Lost' \subseteq Lost
        BY <1>0, <2>1, <2>2, <3>1 DEF Lost, Safe
      <3>3. Unheard' \subseteq Unheard \cup {cur}
        BY DEF Unheard, Open
      <3>. QED  BY <1>0, <3>2, <3>3, Paid
    <2>4. CASE ~\E r \in reqs : r.id = cur /\ r.st # "done"
      <3>1. PICK x : \A t \in Consumed : by[t] = cur => t = x
        BY <1>0, OneBy
      <3>2. \A t \in Consumed : Answered(t) => t = x
        BY <3>1 DEF Answered
      <3>3. Lost' \subseteq Lost \cup {x}
        BY <1>0, <2>1, <2>2, <3>2 DEF Lost, Safe
      <3>4. Unheard' \subseteq Unheard
        BY <2>4 DEF Unheard, Open
      <3>. QED  BY <1>0, <3>3, <3>4, Paid
    <2>. QED  BY <2>3, <2>4
  <1>. QED  BY <1>1, <1>2

(* An end leaves nothing under way.                                        *)
LEMMA EndCourse ==
    ASSUME CourseInv, NEW c, Exit(c), UNCHANGED rows, reqs' \subseteq reqs, Housed', upsets' \in Nat
    PROVE  CourseInv' /\ cur' = 0 /\ ~Doomed'
  <1>1. pc' = "off" /\ cur' = 0 /\ step' = 0
    BY DEF Exit
  <1>2. OldKey' /\ Asked' /\ NewSet' /\ NoneStored'
    BY <1>1 DEF CourseInv, OldKey, Asked, NewSet, NoneStored, Exchanging, Writing
  <1>3. ~Doomed'
    BY <1>1 DEF Doomed, Asking, Exchanging
  <1>. QED  BY <1>1, <1>2, <1>3 DEF CourseInv

(* Files that stay are housed as they were.                                *)
LEMMA HousedStays ==
    ASSUME Housed, UNCHANGED <<mode, file, dir>>
    PROVE  Housed'
  BY DEF Housed, Installed

(* The steps up to the request.  The service begins an exchange without a  *)
(* directory, or after a removal that was paid for; the console overwrites *)
(* (identity.rs, installed::check and is_enrolled).                        *)
LEMMA BeforeRequestPays ==
    ASSUME EnrollInv, CourseInv, Budget, Start \/ Check \/ Load \/ BeginExchange \/ RoundWait
    PROVE  CourseInv' /\ Budget'
  <1>1. /\ UNCHANGED <<mode, file, dir, cfg, reqs, rows, tokens, by, upsets>>
        /\ pc \in {"off", "check", "round", "roundwait"}
    BY DEF Start, Check, Load, BeginExchange, RoundWait, host, server
  <1>2. cur = 0 /\ upsets \in Nat /\ step \in 0..7 /\ (\A r \in reqs : r.id # 0)
        /\ \A t : ~Answered(t) /\ ~Persisting(t)
    BY <1>1 DEF CourseInv, Asked, OldKey, Answered, Persisting, Writing
  <1>3. Housed'
    BY <1>1, HousedStays DEF CourseInv
  <1>4. CASE \E c : Exit(c)
    <2>1. CourseInv' /\ cur' = 0 /\ ~Doomed'
      BY <1>1, <1>2, <1>3, <1>4, EndCourse
    <2>. QED  BY <1>1, <1>2, <2>1, NothingLost
  <1>5. CASE Start \/ RoundWait
    <2>1. UNCHANGED <<cur, step, kp>> /\ pc' \in {"check", "round"}
      BY <1>5 DEF Start, RoundWait
    <2>2. CourseInv'
      BY <1>1, <1>2, <1>3, <2>1
         DEF CourseInv, OldKey, Asked, NewSet, NoneStored, Exchanging, Writing
    <2>3. Doomed' => Doomed
      BY <1>1, <1>5 DEF Start, RoundWait, Doomed, Asking, Exchanging, IsEnrolled, Clean, Installed
    <2>. QED  BY <1>1, <1>2, <2>1, <2>2, <2>3, NothingLost
  <1>6. CASE Check /\ pc' = "round"
    <2>1. UNCHANGED <<cur, step, kp>> /\ (~dir \/ \A f \in Files : file[f] # Absent) /\ pc = "check"
      BY <1>6 DEF Check, Exit
    <2>2. CourseInv'
      BY <1>1, <1>2, <1>3, <1>6, <2>1
         DEF CourseInv, OldKey, Asked, NewSet, NoneStored, Exchanging, Writing
    <2>3. ~Doomed'
      <3>1. CASE ~dir
        BY <1>1, <3>1 DEF Doomed, Clean, CourseInv, Housed, Installed
      <3>2. CASE \A f \in Files : file[f] # Absent
        BY <1>1, <1>6, <3>2 DEF Doomed, Asking, Exchanging, IsEnrolled, Files
      <3>. QED  BY <2>1, <3>1, <3>2
    <2>. QED  BY <1>1, <1>2, <2>1, <2>2, <2>3, NothingLost
  <1>7. CASE Load /\ pc' = "ready"
    <2>1. UNCHANGED <<cur, step, kp>>
      BY <1>7 DEF Load, Exit
    <2>2. CourseInv' /\ ~Doomed'
      BY <1>1, <1>2, <1>3, <1>7, <2>1
         DEF CourseInv, OldKey, Asked, NewSet, NoneStored, Exchanging, Writing, Doomed, Asking
    <2>. QED  BY <1>1, <1>2, <2>1, <2>2, NothingLost
  <1>8. CASE BeginExchange /\ pc' = "send"
    <2>1. UNCHANGED <<cur, step>> /\ ~IsEnrolled /\ kp' = Fresh(Keys) /\ pc = "round"
      BY <1>8 DEF BeginExchange, Exit
    <2>2. kp' # Old.key
      <3>1. IsFiniteSet(Keys) /\ Old.key \in Keys
        BY NumbersFinite DEF EnrollInv, ServerInv, HostInv, Keys
      <3>. QED  BY <2>1, <3>1, FreshLemma
    <2>3. \A t \in Consumed : ~Stored(t)
      BY <2>1, ByNumbers DEF EnrollInv, Stored, Loadable, IsEnrolled, Absent
    <2>4. Consumed' = Consumed /\ \A t : Stored(t)' <=> Stored(t)
      BY <1>1, StoredStays DEF Consumed
    <2>5. NoneStored'
      BY <2>3, <2>4 DEF NoneStored
    <2>6. CourseInv'
      BY <1>1, <1>2, <1>3, <1>8, <2>1, <2>2, <2>5
         DEF CourseInv, OldKey, Asked, NewSet, Writing
    <2>7. Doomed' => Doomed
      BY <1>1, <2>1 DEF Doomed, Asking, Exchanging, IsEnrolled, Clean, Installed
    <2>. QED  BY <1>1, <1>2, <2>1, <2>6, <2>7, NothingLost
  <1>. QED  BY <1>4, <1>5, <1>6, <1>7, <1>8 DEF Check, Load, BeginExchange

(* A request goes out: the agent awaits it, so it is not unheard.          *)
LEMMA SendPays ==
    ASSUME EnrollInv, CourseInv, Budget, Send
    PROVE  CourseInv' /\ Budget'
  <1>1. PICK n, id : /\ id = Fresh(Ids) /\ cur' = id /\ reqs' = reqs \cup {n}
                     /\ n.id = id /\ n.tok = cfg /\ n.key = kp
    <2>1. PICK id : id = Fresh(Ids)
      OBVIOUS
    <2>2. PICK n : n = [id |-> id, tok |-> cfg, key |-> kp, st |-> "sent", ans |-> 0]
      OBVIOUS
    <2>3. reqs' = reqs \cup {n} /\ cur' = id
      BY <2>1, <2>2 DEF Send
    <2>4. n.id = id /\ n.tok = cfg /\ n.key = kp
      BY <2>2
    <2>. QED  BY <2>1, <2>3, <2>4
  <1>2. /\ pc = "send" /\ pc' = "wait"
        /\ UNCHANGED <<mode, file, dir, cfg, kp, step, mem, rows, tokens, by, upsets>>
    BY DEF Send, host
  <1>3. /\ id # 0 /\ id # Old.id /\ id # file["ident"].id
        /\ \A r \in reqs : r.id # id
    <2>1. IsFiniteSet(Ids)
      BY NumbersFinite DEF EnrollInv, ServerInv, HostInv
    <2>2. id \in Nat \ {0} /\ id \notin Ids
      BY <1>1, <2>1, FreshLemma
    <2>3. Old.id \in Ids /\ file["ident"].id \in Ids /\ \A r \in reqs : r.id \in Ids
      BY DEF Ids, EnrollInv, ServerInv, Files
    <2>. QED  BY <2>2, <2>3
  <1>4. cur = 0 /\ upsets \in Nat /\ step \in 0..7
    BY <1>2 DEF CourseInv, Asked
  <1>5. Consumed' = Consumed /\ \A t : Stored(t)' <=> Stored(t)
    BY <1>2, StoredStays DEF Consumed
  <1>6. CourseInv'
    <2>1. Housed'
      BY <1>2, HousedStays DEF CourseInv
    <2>2. OldKey'
      BY <1>1, <1>2, <1>3 DEF CourseInv, OldKey
    <2>3. Asked'
      BY <1>1, <1>2, <1>3 DEF Asked
    <2>4. NewSet' /\ NoneStored'
      BY <1>2, <1>5 DEF CourseInv, NewSet, NoneStored, Exchanging, Writing
    <2>. QED  BY <1>2, <1>4, <2>1, <2>2, <2>3, <2>4 DEF CourseInv
  <1>7. Lost' \subseteq Lost
    <2>1. \A t : ~Answered(t) /\ ~Persisting(t)
      BY <1>2 DEF Answered, Persisting, Writing
    <2>. QED  BY <1>5, <2>1 DEF Lost, Safe
  <1>8. Unheard' \subseteq Unheard
    BY <1>1, <1>4 DEF Unheard, Open, CourseInv, OldKey
  <1>9. Doomed' => Doomed
    BY <1>2 DEF Doomed, Asking, Exchanging, Clean, Installed
  <1>. QED  BY <1>2, <1>4, <1>6, <1>7, <1>8, <1>9, Free DEF EnrollInv, ServerInv

(* The server's steps that commit nothing.                                 *)
LEMMA ServerPays ==
    ASSUME EnrollInv, CourseInv, Budget,
           \/ \E r \in reqs : Arrive(r) \/ Consume(r) \/ ServerError(r) \/ LoseRequest(r)
           \/ \E t \in Tokens : Expire(t)
    PROVE  CourseInv' /\ Budget'
  <1>1. CASE \E t \in Tokens : Expire(t)
    <2>1. PICK u \in Tokens : /\ tokens[u] = "issued" /\ tokens' = [tokens EXCEPT ![u] = "expired"]
                              /\ UNCHANGED <<mode, host, agent, reqs, rows, by, upsets>>
      BY <1>1 DEF Expire
    <2>2. \A t \in Tokens : /\ tokens'[t] = "consumed" <=> tokens[t] = "consumed"
                            /\ tokens'[t] = "issued" => tokens[t] = "issued"
      BY <2>1 DEF EnrollInv, ServerInv, ServerTyped
    <2>. QED  BY <2>1, <2>2, RequestsGoOn
  <1>2. ASSUME NEW r \in reqs, LoseRequest(r)
        PROVE  CourseInv' /\ Budget'
    BY <1>2, RequestsGoOn DEF LoseRequest
  <1>3. ASSUME NEW r \in reqs, Arrive(r) \/ Consume(r) \/ ServerError(r)
        PROVE  CourseInv' /\ Budget'
    <2>1. /\ UNCHANGED <<mode, host, agent, rows, tokens, by, upsets>> /\ r.st # "done"
      BY <1>3 DEF Arrive, Consume, ServerError
    <2>2. PICK st \in {"open", "locked", "done"}, ans \in {0, 200, 401, 409, 503} : Advance(r, st, ans)
      BY <1>3 DEF Arrive, Consume, ServerError
    <2>3. \A s \in reqs' : \E u \in reqs : /\ s.id = u.id /\ s.key = u.key /\ s.tok = u.tok
                                           /\ s.st # "done" => u.st # "done"
      BY <2>1, <2>2, AdvanceLemma DEF EnrollInv, ServerInv
    <2>4. \A s \in reqs : s.st = "done" => s \in reqs'
      BY <2>1, <2>2 DEF Advance
    <2>. QED  BY <2>1, <2>3, <2>4, RequestsGoOn
  <1>. QED  BY <1>1, <1>2, <1>3

(* COMMIT: the awaited answer is safe where the files can be written; the  *)
(* loss of an unheard one, and of a doomed one, was counted before.  An    *)
(* unheard COMMIT is an upset (routes/enroll.ts).                          *)
LEMMA CommitPays ==
    ASSUME EnrollInv, CourseInv, Budget, NEW r \in reqs, Commit(r) \/ CommitUnheard(r)
    PROVE  CourseInv' /\ Budget'
  <1>1. /\ r.st = "locked" /\ rows' = rows \cup {[id |-> r.id, key |-> r.key]}
        /\ tokens' = [tokens EXCEPT ![r.tok] = "consumed"]
        /\ by' = [by EXCEPT ![r.tok] = r.id]
        /\ UNCHANGED <<mode, file, dir, cfg, pc, kp, cur, step, mem>>
    BY DEF Commit, CommitUnheard, Committed, host, agent
  <1>2. PICK ans \in {200, 503} : Advance(r, "done", ans) /\ (Commit(r) => ans = 200)
    BY DEF Commit, CommitUnheard
  <1>3. /\ \A s \in reqs' : \/ s \in reqs /\ s # r
                            \/ s.id = r.id /\ s.tok = r.tok /\ s.key = r.key /\ s.st = "done"
        /\ \A s \in reqs : s # r => s \in reqs'
    <2>1. \A s \in reqs : s # r => s \in reqs'
      BY <1>2 DEF Advance
    <2>2. \A s \in reqs' : \/ s \in reqs /\ s # r
                           \/ s.id = r.id /\ s.tok = r.tok /\ s.key = r.key /\ s.st = "done"
      BY <1>2, AdvanceLemma DEF EnrollInv, ServerInv
    <2>. QED  BY <2>1, <2>2
  <1>4. /\ r.id # 0 /\ r.key # Old.key /\ r.tok \in Tokens /\ r \in Request
        /\ tokens[r.tok] = "issued" /\ \A w \in rows : w.id # r.id
        /\ OwnIds /\ ServerTyped /\ upsets \in Nat
    BY <1>1 DEF EnrollInv, ServerInv, ServerTyped, Request, RowLock, Transactions, CourseInv, OldKey
  <1>5. /\ Consumed' = Consumed \cup {r.tok} /\ r.tok \notin Consumed /\ by'[r.tok] = r.id
        /\ \A t \in Consumed : by'[t] = by[t]
    BY <1>1, <1>4 DEF Consumed, ServerTyped
  <1>6. \A t \in Consumed : Stored(t)' <=> Stored(t)
    BY <1>1, <1>5 DEF Stored, Loadable, Installed, Consistent
  <1>7. ~Stored(r.tok)'
    BY <1>1, <1>4, <1>5 DEF Stored, Loadable, EnrollInv, HostInv, OnDisk
  <1>8. CourseInv'
    <2>1. Housed' /\ NewSet'
      BY <1>1 DEF CourseInv, Housed, NewSet, Installed, Writing
    <2>2. OldKey'
      BY <1>1, <1>3, <1>4 DEF CourseInv, OldKey
    <2>3. Asked'
      BY <1>1, <1>3 DEF CourseInv, Asked
    <2>4. NoneStored'
      BY <1>1, <1>5, <1>6, <1>7 DEF CourseInv, NoneStored, Exchanging, Writing
    <2>5. upsets' \in Nat /\ step' \in 0..7
      BY <1>1, <1>4 DEF CourseInv, Commit, CommitUnheard, Upset, Upsets
    <2>. QED  BY <2>1, <2>2, <2>3, <2>4, <2>5 DEF CourseInv
  <1>9. \A t \in Consumed : Safe(t) => Safe(t)'
    <2>1. Clean' = Clean
      BY <1>1 DEF Clean, Installed
    <2>2. \A t \in Consumed : Answered(t) => Answered(t)'
      BY <1>1, <1>3, <1>5, <2>1 DEF Answered
    <2>3. \A t \in Consumed : Persisting(t) => Persisting(t)'
      BY <1>1, <1>5 DEF Persisting, Writing, OnCourse, Installed
    <2>. QED  BY <1>6, <2>2, <2>3 DEF Safe
  <1>10. Lost' \subseteq Lost \cup {r.tok}
    BY <1>5, <1>9 DEF Lost
  <1>11. Unheard' \subseteq Unheard
    BY <1>1, <1>3 DEF Unheard, Open
  <1>12. Doomed' => Doomed
    BY <1>1, <1>4 DEF Doomed, Asking, Exchanging, IsEnrolled, Clean, Installed, EnrollInv, HostInv, HostTyped, ServerTyped
  <1>13. CASE CommitUnheard(r)
    BY <1>4, <1>8, <1>10, <1>11, <1>12, <1>13, Paid DEF CommitUnheard, Upset, Upsets
  <1>14. CASE Commit(r) /\ r.id # cur
    <2>1. r.id \in Unheard
      BY <1>1, <1>14 DEF Unheard, Open
    <2>2. Unheard' \subseteq Unheard \ {r.id}
      BY <1>1, <1>3, <1>4 DEF Unheard, Open, OwnIds
    <2>3. upsets' = upsets
      BY <1>14 DEF Commit
    <2>. QED  BY <1>4, <1>8, <1>10, <1>12, <2>1, <2>2, <2>3, Foreseen
  <1>15. CASE Commit(r) /\ r.id = cur
    <2>1. upsets' = upsets /\ pc = "wait" /\ r.tok = cfg
      BY <1>4, <1>15 DEF Commit, CourseInv, Asked
    <2>2. CASE Clean
      <3>1. PICK n \in reqs' : n.id = r.id /\ n.tok = r.tok /\ n.st = "done" /\ n.ans = 200
        <4>1. PICK n : n = [r EXCEPT !.st = "done", !.ans = 200]
          OBVIOUS
        <4>2. n \in reqs'
          BY <1>2, <1>15, <4>1 DEF Advance
        <4>3. n.id = r.id /\ n.tok = r.tok /\ n.st = "done" /\ n.ans = 200
          BY <1>4, <4>1 DEF Request
        <4>. QED  BY <4>2, <4>3
      <3>2. Answered(r.tok)'
        BY <1>1, <1>5, <1>15, <2>1, <2>2, <3>1 DEF Answered, Clean, Installed
      <3>3. Lost' \subseteq Lost
        BY <1>5, <1>9, <3>2 DEF Lost, Safe
      <3>. QED  BY <1>4, <1>8, <1>11, <1>12, <2>1, <3>3, Free
    <2>3. CASE ~Clean
      <3>1. Doomed
        <4>1. cfg # 0
          BY <1>4, <2>1 DEF Tokens
        <4>. QED  BY <1>4, <2>1, <2>3, <4>1 DEF Doomed, Asking, Exchanging
      <3>2. ~Doomed'
        BY <1>1, <1>4, <2>1 DEF Doomed, ServerTyped
      <3>. QED  BY <1>4, <1>8, <1>10, <1>11, <2>1, <3>1, <3>2, Foreseen
    <2>. QED  BY <2>2, <2>3
  <1>. QED  BY <1>13, <1>14, <1>15

(* Another attempt, a round to wait for, or the console's end.             *)
LEMMA AgainCourse ==
    ASSUME CourseInv, pc = "wait", Again, UNCHANGED <<mode, file, dir, cfg, rows, tokens, by>>,
           reqs' \subseteq reqs, upsets' \in Nat
    PROVE  CourseInv' /\ cur' = 0 /\ (Doomed' => Doomed)
  <1>1. Housed'
    BY HousedStays DEF CourseInv
  <1>2. CASE Exit(4)
    BY <1>1, <1>2, EndCourse
  <1>3. CASE /\ cur' = 0 /\ step' = step
             /\ pc' = "roundwait" \/ (pc' = "send" /\ kp' = kp)
    <2>1. Consumed' = Consumed /\ \A t : Stored(t)' <=> Stored(t)
      BY StoredStays DEF Consumed
    <2>2. NoneStored'
      BY <1>3, <2>1 DEF CourseInv, NoneStored, Exchanging
    <2>3. OldKey' /\ Asked' /\ NewSet'
      BY <1>3 DEF CourseInv, OldKey, Asked, NewSet, Writing
    <2>4. Doomed' => Doomed
      BY DEF Doomed, Asking, Exchanging, Clean, Installed
    <2>. QED  BY <1>1, <1>3, <2>2, <2>3, <2>4 DEF CourseInv
  <1>. QED  BY <1>2, <1>3 DEF Again

(* The answer, or none.  A 200 is safe on its way to the files; without a  *)
(* 200 no token was consumed, or the loss was counted before; a timeout    *)
(* and a broken answer are upsets (enrollment.rs).                         *)
LEMMA AnswerPays ==
    ASSUME EnrollInv, CourseInv, Budget, Answer \/ NoAnswer \/ Malformed \/ Timeout \/ Untrusted
    PROVE  CourseInv' /\ Budget'
  <1>1. /\ UNCHANGED <<mode, file, dir, cfg, rows, tokens, by>>
        /\ reqs' \subseteq reqs /\ pc = "wait"
    BY DEF Answer, NoAnswer, Malformed, Timeout, Untrusted, host, server
  <1>2. OwnIds /\ ServerTyped /\ upsets \in Nat /\ Housed'
    BY <1>1, HousedStays DEF EnrollInv, ServerInv, CourseInv
  <1>3. \A t : ~Persisting(t)
    BY <1>1 DEF Persisting, Writing
  <1>4. CASE Malformed \/ Timeout
    <2>1. upsets' = upsets + 1
      BY <1>4 DEF Malformed, Timeout, Upset, Upsets
    <2>2. Again \/ Exit(3)
      BY <1>4 DEF Malformed, Timeout
    <2>3. CourseInv' /\ cur' = 0 /\ (Doomed' => Doomed)
      BY <1>1, <1>2, <2>1, <2>2, AgainCourse, EndCourse
    <2>. QED  BY <1>1, <2>1, <2>3, UpsetPays
  <1>5. ASSUME upsets' = upsets, Again \/ Exit(3) \/ Exit(6),
               \A r \in reqs' : r.id # cur,
               \A r \in reqs : r.id = cur /\ r.st = "done" => r.ans # 200
        PROVE  CourseInv' /\ Budget'
    <2>1. CourseInv' /\ cur' = 0 /\ (Doomed' => Doomed)
      BY <1>1, <1>2, <1>5, AgainCourse, EndCourse
    <2>2. \A t : ~Answered(t)
      BY <1>5 DEF Answered
    <2>. QED  BY <1>1, <1>3, <1>5, <2>1, <2>2, NothingLost
  <1>6. CASE NoAnswer
    BY <1>5, <1>6 DEF NoAnswer, server
  <1>7. CASE Untrusted
    <2>1. PICK r \in reqs : r.id = cur /\ r.st = "sent" /\ reqs' = reqs \ {r}
      BY <1>7 DEF Untrusted
    <2>2. upsets' = upsets /\ Exit(6)
      BY <1>7 DEF Untrusted
    <2>3. (\A s \in reqs' : s.id # cur) /\ (\A s \in reqs : s.id = cur => s.st = "sent")
      BY <1>2, <2>1 DEF OwnIds
    <2>. QED  BY <1>5, <2>2, <2>3
  <1>8. CASE Answer
    <2>1. PICK r \in reqs :
              /\ r.id = cur /\ r.st = "done" /\ reqs' = reqs \ {r}
              /\ \/ /\ r.ans = 200 /\ pc' = "persist" /\ cur' = 0
                    /\ step' = IF Installed THEN 0 ELSE 1
                    /\ mem' = [id |-> r.id, key |-> kp, cert |-> SetOf(r.id, r.key)["cert"]]
                 \/ r.ans \in {401, 409} /\ Exit(3)
                 \/ r.ans = 503 /\ Again
      BY <1>8 DEF Answer
    <2>2. upsets' = upsets
      BY <1>8 DEF Answer
    <2>3. (\A s \in reqs' : s.id # cur) /\ (\A s \in reqs : s.id = cur => s = r)
      BY <1>2, <2>1 DEF OwnIds
    <2>4. CASE r.ans # 200
      <3>1. Again \/ Exit(3)
        BY <2>1, <2>4
      <3>2. \A s \in reqs : s.id = cur /\ s.st = "done" => s.ans # 200
        BY <2>3, <2>4
      <3>. QED  BY <1>5, <2>2, <2>3, <3>1, <3>2
    <2>5. CASE r.ans = 200
      <3>1. /\ pc' = "persist" /\ cur' = 0 /\ step' \in {0, 1} /\ (Installed => step' = 0)
            /\ mem'.id = cur
        BY <2>1, <2>5
      <3>2. Consumed' = Consumed /\ \A t : Stored(t)' <=> Stored(t)
        BY <1>1, StoredStays DEF Consumed
      <3>3. CourseInv'
        <4>1. OldKey' /\ Asked'
          BY <1>1, <3>1 DEF CourseInv, OldKey, Asked
        <4>2. NewSet'
          BY <1>1, <3>1 DEF CourseInv, Asked, NewSet
        <4>3. NoneStored'
          BY <1>1, <3>2 DEF CourseInv, NoneStored, Exchanging
        <4>4. step' \in 0..7
          BY <3>1
        <4>. QED  BY <1>2, <2>2, <4>1, <4>2, <4>3, <4>4 DEF CourseInv
      <3>4. ASSUME NEW t, Answered(t)
            PROVE  Persisting(t)'
        <4>1. by'[t] = cur /\ Clean
          BY <1>1, <3>4 DEF Answered
        <4>2. OnCourse'
          <5>1. \A k \in 1..3 : Order[k] \in Files /\ ~(k < step')
            BY <3>1 DEF Order, Files
          <5>. QED  BY <1>1, <3>1, <4>1, <5>1 DEF OnCourse, Clean, Installed
        <4>. QED  BY <3>1, <4>1, <4>2 DEF Persisting, Writing
      <3>5. Lost' \subseteq Lost
        BY <1>3, <3>2, <3>4 DEF Lost, Safe
      <3>6. Unheard' \subseteq Unheard
        BY <1>1, <2>3 DEF Unheard, Open
      <3>7. ~Doomed'
        BY <3>1 DEF Doomed, Asking, Exchanging
      <3>. QED  BY <1>2, <2>2, <3>3, <3>5, <3>6, <3>7, Free
    <2>. QED  BY <2>4, <2>5
  <1>. QED  BY <1>4, <1>6, <1>7, <1>8

(* With the new certificate, or none, and not yet the new identity.json,   *)
(* no set is complete.                                                     *)
LEMMA HalfWritten ==
    ASSUME ServerInv, CourseInv, UNCHANGED <<tokens, by, mem>>, NewSet', Writing', step' > 1
    PROVE  \A t \in Consumed' : ~Stored(t)'
  <1>1. Consumed' = Consumed
    BY DEF Consumed
  <1>2. \A t \in Consumed : by'[t] # 0 /\ by'[t] # Old.id
    BY ByNumbers
  <1>. QED  BY <1>1, <1>2 DEF NewSet, Stored, Loadable

(* The next file of the set is written (identity.rs, persist).             *)
LEMMA WritePays ==
    ASSUME EnrollInv, CourseInv, Budget, pc = "persist", step \in 1..3, step' = step + 1,
           file' = [file EXCEPT ![Order[step]] = NewFile], Installed => dir,
           pc' \in {"persist", "hygiene"}, step < 3 => pc' = "persist",
           UNCHANGED <<mode, dir, cfg, cur, mem, kp, reqs, rows, tokens, by, upsets>>
    PROVE  CourseInv' /\ Budget'
  <1>1. /\ cur = 0 /\ upsets \in Nat /\ step' \in 0..7 /\ Writing /\ NewSet /\ ServerInv
        /\ file \in [Files -> File]
    BY DEF CourseInv, Asked, Writing, EnrollInv, HostInv, HostTyped
  <1>2. /\ Order[1] = "cert" /\ Order[2] = "key" /\ Order[3] = "ident"
        /\ "cert" \in Files /\ "key" \in Files /\ "ident" \in Files
        /\ \A k \in 1..3 : Order[k] \in Files
        /\ \A k, l \in 1..3 : Order[k] = Order[l] => k = l
    BY DEF Order, Files
  <1>3. NewFile = SetOf(mem.id, mem.key)[Order[step]]
    BY DEF NewFile
  <1>4. /\ file'[Order[step]] = SetOf(mem.id, mem.key)[Order[step]]
        /\ \A k \in 1..3 : k # step => file'[Order[k]] = file[Order[k]]
    BY <1>1, <1>2, <1>3
  <1>5. /\ SetOf(mem.id, mem.key)["cert"] = [is |-> "whole", id |-> mem.id, key |-> mem.key]
        /\ SetOf(mem.id, mem.key)["key"] = [is |-> "whole", id |-> 0, key |-> mem.key]
        /\ SetOf(mem.id, mem.key)["ident"] = [is |-> "whole", id |-> mem.id, key |-> mem.key]
    BY <1>2 DEF SetOf
  <1>6. NewSet'
    <2>1. CASE step = 3
      BY <2>1 DEF NewSet, Writing
    <2>2. CASE step \in {1, 2}
      <3>1. file'["ident"] = file["ident"]
        BY <1>2, <1>4, <2>2
      <3>2. file'["cert"].id \in {mem.id, Old.id, 0}
        BY <1>1, <1>2, <1>4, <1>5, <2>2 DEF NewSet
      <3>. QED  BY <1>1, <3>1, <3>2 DEF NewSet
    <2>. QED  BY <2>1, <2>2
  <1>7. CourseInv'
    <2>1. Housed' /\ OldKey' /\ Asked'
      BY <1>1 DEF CourseInv, Housed, OldKey, Asked, Installed
    <2>2. NoneStored'
      <3>1. ~Exchanging'
        BY DEF Exchanging
      <3>2. Writing' => \A t \in Consumed' : ~Stored(t)'
        BY <1>1, <1>6, HalfWritten
      <3>. QED  BY <3>1, <3>2 DEF NoneStored
    <2>. QED  BY <1>1, <1>6, <2>1, <2>2 DEF CourseInv
  <1>8. ASSUME NEW t \in Consumed, Safe(t)
        PROVE  Safe(t)'
    <2>1. Persisting(t)
      BY <1>1, <1>8 DEF Safe, Answered, CourseInv, NoneStored
    <2>2. mem.id = by[t] /\ OnCourse
      BY <2>1 DEF Persisting
    <2>3. \A k \in 1..3 : k < step' => file'[Order[k]] = SetOf(mem.id, mem.key)[Order[k]]
      BY <1>4, <2>2 DEF OnCourse
    <2>4. CASE step = 3
      <3>1. /\ file'["cert"] = [is |-> "whole", id |-> mem.id, key |-> mem.key]
            /\ file'["key"] = [is |-> "whole", id |-> 0, key |-> mem.key]
            /\ file'["ident"] = [is |-> "whole", id |-> mem.id, key |-> mem.key]
        BY <1>2, <1>5, <2>3, <2>4
      <3>2. Stored(t)'
        BY <2>2, <3>1 DEF Stored, Loadable, Consistent
      <3>. QED  BY <3>2 DEF Safe
    <2>5. CASE step < 3
      <3>1. OnCourse'
        BY <1>4, <2>2, <2>3 DEF OnCourse, Installed
      <3>2. Writing'
        BY <2>5 DEF Writing
      <3>. QED  BY <2>2, <3>1, <3>2 DEF Safe, Persisting
    <2>. QED  BY <2>4, <2>5
  <1>9. Lost' \subseteq Lost
    BY <1>8 DEF Lost, Consumed
  <1>10. Unheard' \subseteq Unheard /\ ~Doomed'
    BY DEF Unheard, Open, Doomed, Asking, Exchanging
  <1>. QED  BY <1>1, <1>7, <1>9, <1>10, Free DEF ServerInv

(* Persisting: what is on course is written to the end, or an upset pays;  *)
(* the hardening and the hygiene come after (identity.rs).                 *)
LEMMA PersistPays ==
    ASSUME EnrollInv, CourseInv, Budget,
           EnsureDirectory \/ CreateNew \/ Write \/ Harden \/ PersistFails \/ Hygiene
    PROVE  CourseInv' /\ Budget'
  <1>1. /\ UNCHANGED <<mode, reqs, rows, tokens, by>> /\ pc \in {"persist", "hygiene"}
        /\ cur = 0 /\ upsets \in Nat /\ step \in 0..7 /\ \A r \in reqs : r.id # 0
        /\ \A t : ~Answered(t)
    BY DEF EnsureDirectory, CreateNew, Write, Harden, PersistFails, Hygiene, server, CourseInv, Asked,
           OldKey, Answered
  <1>2. CASE EnsureDirectory
    <2>1. /\ pc = "persist" /\ step = 0 /\ dir' = TRUE /\ step' = 1
          /\ UNCHANGED <<file, cfg, pc, kp, cur, mem, upsets>>
      BY <1>2 DEF EnsureDirectory
    <2>2. Consumed' = Consumed /\ \A t : Stored(t)' <=> Stored(t)
      BY <1>1, <2>1, StoredStays DEF Consumed
    <2>3. CourseInv'
      <3>1. Housed' /\ OldKey' /\ Asked' /\ NewSet'
        BY <1>1, <2>1 DEF CourseInv, Housed, OldKey, Asked, NewSet, Writing
      <3>2. NoneStored'
        BY <2>1, <2>2 DEF CourseInv, NoneStored, Exchanging, Writing
      <3>. QED  BY <1>1, <2>1, <3>1, <3>2 DEF CourseInv
    <2>4. \A t : Persisting(t) => Persisting(t)'
      BY <1>1, <2>1 DEF Persisting, Writing, OnCourse, Installed
    <2>5. Lost' \subseteq Lost
      BY <1>1, <2>2, <2>4 DEF Lost, Safe
    <2>6. Unheard' \subseteq Unheard /\ ~Doomed'
      BY <1>1, <2>1 DEF Unheard, Open, Doomed, Asking, Exchanging
    <2>. QED  BY <1>1, <2>1, <2>3, <2>5, <2>6, Free DEF EnrollInv, ServerInv
  <1>3. CASE CreateNew /\ Exit(5) /\ file' = file /\ (~dir \/ file[Order[step]] # Absent)
    <2>1. UNCHANGED <<dir, cfg, upsets>> /\ Installed /\ step \in 1..3
      BY <1>3 DEF CreateNew
    <2>2. \A t : ~Persisting(t)
      BY <1>3, <2>1 DEF Persisting, OnCourse
    <2>3. CourseInv' /\ cur' = 0 /\ ~Doomed'
      BY <1>1, <1>3, <2>1, EndCourse, HousedStays DEF CourseInv
    <2>. QED  BY <1>1, <1>3, <2>1, <2>2, <2>3, NothingLost
  <1>4. CASE CreateNew /\ ~(Exit(5) /\ file' = file /\ (~dir \/ file[Order[step]] # Absent))
    <2>1. /\ pc = "persist" /\ step \in 1..3 /\ step' = step + 1 /\ dir
          /\ file' = [file EXCEPT ![Order[step]] = NewFile]
          /\ pc' = (IF step = 3 THEN "hygiene" ELSE "persist")
          /\ UNCHANGED <<dir, cfg, cur, mem, kp, upsets>>
      BY <1>4 DEF CreateNew
    <2>. QED  BY <1>1, <2>1, WritePays
  <1>5. CASE Write
    <2>1. /\ pc = "persist" /\ step \in 1..3 /\ step' = step + 1 /\ ~Installed /\ pc' = pc
          /\ file' = [file EXCEPT ![Order[step]] = NewFile]
          /\ UNCHANGED <<dir, cfg, cur, mem, kp, upsets>>
      BY <1>5 DEF Write
    <2>. QED  BY <1>1, <2>1, WritePays
  <1>6. CASE Harden
    <2>1. UNCHANGED <<file, dir, cfg, upsets>> /\ pc = "persist" /\ step \in 4..6
      BY <1>6 DEF Harden
    <2>2. Housed' /\ \A t : ~Persisting(t)
      BY <1>1, <2>1, HousedStays DEF CourseInv, Persisting, Writing
    <2>3. CourseInv' /\ cur' = 0 /\ ~Doomed'
      <3>1. CASE Exit(5)
        BY <1>1, <2>1, <2>2, <3>1, EndCourse
      <3>2. CASE ~Exit(5)
        <4>1. step' = step + 1 /\ pc' \in {"hygiene", "persist"} /\ UNCHANGED <<cur, kp>>
          BY <1>6, <3>2 DEF Harden
        <4>. QED  BY <1>1, <2>1, <2>2, <4>1 DEF CourseInv, OldKey, Asked, NewSet, NoneStored, Exchanging,
                     Writing, Doomed, Asking
      <3>. QED  BY <3>1, <3>2
    <2>. QED  BY <1>1, <2>1, <2>2, <2>3, NothingLost
  <1>7. CASE PersistFails
    <2>1. /\ Writing /\ upsets' = upsets + 1 /\ Exit(5) /\ UNCHANGED <<dir, cfg>>
          /\ file' = file \/ (Installed => dir)
      BY <1>7 DEF PersistFails, Writing, Upset, Upsets
    <2>2. Housed'
      BY <1>1, <2>1 DEF CourseInv, Housed, Installed
    <2>3. CourseInv' /\ cur' = 0 /\ ~Doomed'
      BY <1>1, <2>1, <2>2, EndCourse
    <2>. QED  BY <1>1, <2>1, <2>3, UpsetPays
  <1>8. CASE Hygiene
    <2>1. /\ pc = "hygiene" /\ pc' = "ready" /\ step' = 0 /\ UNCHANGED <<file, dir, cur, upsets>>
      BY <1>8 DEF Hygiene
    <2>2. Housed' /\ \A t : ~Persisting(t)
      BY <1>1, <2>1, HousedStays DEF CourseInv, Persisting, Writing
    <2>3. CourseInv' /\ ~Doomed'
      BY <1>1, <2>1, <2>2 DEF CourseInv, OldKey, Asked, NewSet, NoneStored, Exchanging,
                     Writing, Doomed, Asking
    <2>. QED  BY <1>1, <2>1, <2>2, <2>3, NothingLost
  <1>. QED  BY <1>2, <1>3, <1>4, <1>5, <1>6, <1>7, <1>8

(* The ends: an end that waits for an answer or writes the files is an     *)
(* upset; any other loses nothing.                                         *)
LEMMA EndPays ==
    ASSUME EnrollInv, CourseInv, Budget, Stop \/ Crash
    PROVE  CourseInv' /\ Budget'
  <1>1. /\ Exit(0) /\ UNCHANGED <<mode, dir, cfg, rows, tokens, by>> /\ reqs' \subseteq reqs
        /\ file' = file \/ (Installed => dir)
        /\ upsets \in Nat /\ \A r \in reqs : r.id # 0
    BY DEF Stop, Crash, Abandon, host, CourseInv, OldKey
  <1>2. Housed'
    BY <1>1 DEF CourseInv, Housed, Installed
  <1>3. CASE pc = "wait" \/ Writing
    <2>1. upsets' = upsets + 1 /\ (pc = "wait" => file' = file)
      BY <1>3 DEF Stop, Crash, Upset, Upsets, Writing, CourseInv, host
    <2>2. CourseInv' /\ cur' = 0 /\ ~Doomed'
      BY <1>1, <1>2, <2>1, EndCourse
    <2>. QED  BY <1>1, <1>3, <2>1, <2>2, UpsetPays
  <1>4. CASE pc # "wait" /\ ~Writing
    <2>1. upsets' = upsets /\ file' = file
      BY <1>4 DEF Stop, Crash, Writing, CourseInv, host
    <2>2. CourseInv' /\ cur' = 0 /\ ~Doomed'
      BY <1>1, <1>2, <2>1, EndCourse
    <2>3. cur = 0 /\ \A t : ~Answered(t) /\ ~Persisting(t)
      BY <1>4 DEF CourseInv, Asked, Answered, Persisting
    <2>. QED  BY <1>1, <2>1, <2>2, <2>3, NothingLost
  <1>. QED  BY <1>3, <1>4

(* Outside an exchange at most one token is safe: the one on disk, or the  *)
(* one being written.                                                      *)
LEMMA OneSafe ==
    ASSUME EnrollInv, CourseInv, ~Exchanging
    PROVE  \E x : \A t \in Consumed : Safe(t) => t = x
  <1>1. ServerInv /\ \A t : ~Answered(t)
    BY DEF EnrollInv, Answered, Exchanging
  <1>2. CASE Writing
    <2>1. PICK x : \A t \in Consumed : by[t] = mem.id => t = x
      BY <1>1, OneBy
    <2>. QED  BY <1>1, <1>2, <2>1 DEF Safe, Persisting, CourseInv, NoneStored
  <1>3. CASE ~Writing
    <2>1. PICK x : \A t \in Consumed : by[t] = file["ident"].id => t = x
      BY <1>1, OneBy
    <2>. QED  BY <1>1, <1>3, <2>1 DEF Safe, Persisting, Stored
  <1>. QED  BY <1>2, <1>3

(* A removal costs the set on disk or the one being written; between the   *)
(* service's check and its round also the exchange that follows.           *)
LEMMA RemovePays ==
    ASSUME EnrollInv, CourseInv, Budget, Remove
    PROVE  CourseInv' /\ Budget'
  <1>1. /\ UNCHANGED <<mode, cfg, pc, kp, cur, step, mem, reqs, rows, tokens, by>>
        /\ upsets' = upsets + (IF Installed /\ pc = "round" THEN 2 ELSE 1)
        /\ upsets \in Nat /\ step \in 0..7 /\ ServerTyped /\ ServerInv
    BY DEF Remove, Upsets, agent, server, CourseInv, EnrollInv, ServerInv
  <1>2. /\ \A f \in Files : file'[f] \in {file[f], Absent}
        /\ dir' = dir \/ \A f \in Files : file'[f] = Absent
    BY DEF Remove, EnrollInv, HostInv, HostTyped
  <1>3. /\ "ident" \in Files /\ "cert" \in Files /\ "key" \in Files
        /\ Absent.is = "absent" /\ Absent.id = 0
    BY DEF Files, Absent
  <1>4. Consumed' = Consumed
    BY <1>1 DEF Consumed
  <1>5. ASSUME NEW t \in Consumed, Stored(t)'
        PROVE  Stored(t)
    <2>1. by[t] # 0
      BY <1>1, ByNumbers
    <2>2. file'["ident"] = file["ident"] /\ file'["key"] = file["key"] /\ file'["cert"] = file["cert"]
      BY <1>1, <1>2, <1>3, <1>5, <2>1 DEF Stored, Loadable
    <2>. QED  BY <1>1, <1>5, <2>2 DEF Stored, Loadable, Installed, Consistent
  <1>6. CourseInv'
    <2>1. Housed'
      BY <1>1, <1>2 DEF CourseInv, Housed, Installed
    <2>2. OldKey' /\ Asked'
      BY <1>1, <1>2, <1>3 DEF CourseInv, OldKey, Asked
    <2>3. NewSet'
      BY <1>1, <1>2, <1>3 DEF CourseInv, NewSet, Writing
    <2>4. NoneStored'
      BY <1>1, <1>4, <1>5 DEF CourseInv, NoneStored, Exchanging, Writing
    <2>. QED  BY <1>1, <2>1, <2>2, <2>3, <2>4 DEF CourseInv
  <1>7. Unheard' \subseteq Unheard
    BY <1>1 DEF Unheard, Open
  <1>8. CASE Exchanging
    <2>1. Clean => Clean'
      BY <1>1, <1>2 DEF Clean, Installed
    <2>2. \A t : Answered(t) => Answered(t)'
      BY <1>1, <2>1 DEF Answered
    <2>3. \A t \in Consumed : ~Stored(t) /\ ~Persisting(t)
      BY <1>8 DEF CourseInv, NoneStored, Persisting, Writing, Exchanging
    <2>4. Lost' \subseteq Lost
      BY <1>4, <2>2, <2>3 DEF Lost, Safe
    <2>5. upsets' = upsets + 1
      BY <1>1, <1>8 DEF Exchanging
    <2>. QED  BY <1>1, <1>6, <1>7, <2>4, <2>5, Paid
  <1>9. CASE ~Exchanging
    <2>1. PICK x : \A t \in Consumed : Safe(t) => t = x
      BY <1>9, OneSafe
    <2>2. Lost' \subseteq Lost \cup {x}
      BY <1>4, <2>1 DEF Lost
    <2>3. CASE Installed /\ pc = "round"
      <3>1. upsets' = upsets + 2
        BY <1>1, <2>3
      <3>. QED  BY <1>1, <1>6, <1>7, <2>2, <3>1, PaidTwice
    <2>4. CASE ~(Installed /\ pc = "round")
      <3>1. upsets' = upsets + 1
        BY <1>1, <2>4
      <3>2. ~Doomed'
        BY <1>1, <1>9, <2>4 DEF Doomed, Asking, Exchanging, Clean, Installed
      <3>. QED  BY <1>1, <1>6, <1>7, <2>2, <3>1, <3>2, Paid
    <2>. QED  BY <2>3, <2>4
  <1>. QED  BY <1>8, <1>9

(* A restored backup costs the set it mixes with, or the exchange whose    *)
(* files it is in the way of.                                              *)
LEMMA RestorePays ==
    ASSUME EnrollInv, CourseInv, Budget, NEW S, Restore(S)
    PROVE  CourseInv' /\ Budget'
  <1>1. /\ UNCHANGED <<mode, cfg, pc, kp, cur, step, mem, reqs, rows, tokens, by>>
        /\ upsets' = upsets + 1 /\ dir' = Installed
        /\ upsets \in Nat /\ step \in 0..7 /\ ServerTyped /\ ServerInv
    BY DEF Restore, Upset, Upsets, agent, server, CourseInv, EnrollInv, ServerInv
  <1>2. \A f \in Files : file'[f] = IF f \in S THEN SetOf(Old.id, Old.key)[f] ELSE file[f]
    BY DEF Restore
  <1>3. /\ "ident" \in Files /\ "cert" \in Files /\ "key" \in Files
        /\ SetOf(Old.id, Old.key)["cert"] = [is |-> "whole", id |-> Old.id, key |-> Old.key]
        /\ SetOf(Old.id, Old.key)["key"] = [is |-> "whole", id |-> 0, key |-> Old.key]
        /\ SetOf(Old.id, Old.key)["ident"] = [is |-> "whole", id |-> Old.id, key |-> Old.key]
    BY DEF Files, SetOf
  <1>4. Consumed' = Consumed
    BY <1>1 DEF Consumed
  <1>5. ASSUME NEW t \in Consumed, Stored(t)'
        PROVE  Stored(t)
    <2>1. by[t] # Old.id
      BY <1>1, ByNumbers
    <2>2. file'["ident"] = file["ident"] /\ file'["cert"] = file["cert"]
      BY <1>1, <1>2, <1>3, <1>5, <2>1 DEF Stored
    <2>3. file["ident"].key # Old.key
      <3>1. file["ident"].is = "whole" /\ file["ident"].id = by[t]
        BY <1>1, <1>5, <2>2 DEF Stored, Loadable
      <3>2. [id |-> file["ident"].id, key |-> file["ident"].key] \in rows
        BY <3>1 DEF EnrollInv, HostInv, OnDisk
      <3>3. \A w \in rows : w.key = Old.key => w.id = Old.id
        BY DEF CourseInv, OldKey
      <3>. QED  BY <2>1, <3>1, <3>2, <3>3
    <2>4. file'["key"] = file["key"]
      BY <1>2, <1>3, <1>5, <2>2, <2>3 DEF Stored, Loadable
    <2>. QED  BY <1>1, <1>5, <2>2, <2>4 DEF Stored, Loadable, Installed, Consistent
  <1>6. CourseInv'
    <2>1. Housed'
      BY <1>1 DEF Housed, Installed
    <2>2. OldKey' /\ Asked'
      BY <1>1, <1>2, <1>3 DEF CourseInv, OldKey, Asked
    <2>3. NewSet'
      BY <1>1, <1>2, <1>3 DEF CourseInv, NewSet, Writing
    <2>4. NoneStored'
      BY <1>1, <1>4, <1>5 DEF CourseInv, NoneStored, Exchanging, Writing
    <2>. QED  BY <1>1, <2>1, <2>2, <2>3, <2>4 DEF CourseInv
  <1>7. Unheard' \subseteq Unheard
    BY <1>1 DEF Unheard, Open
  <1>8. CASE Exchanging /\ \E t \in Consumed : Answered(t)
    <2>1. PICK x \in Consumed : Answered(x)
      BY <1>8
    <2>2. by[x] = cur /\ x = cfg /\ tokens[cfg] = "consumed"
      BY <2>1 DEF Answered, CourseInv, Asked, Consumed
    <2>3. \A t \in Consumed : Safe(t) => by[t] = cur
      BY <1>8 DEF Safe, Answered, Persisting, Writing, Exchanging, CourseInv, NoneStored
    <2>4. \A t \in Consumed : by[t] = cur => t = x
      BY <1>1, <2>2 DEF ServerInv, OneAgentPerToken, Consumed
    <2>5. Lost' \subseteq Lost \cup {x}
      BY <1>4, <2>3, <2>4 DEF Lost
    <2>6. ~Doomed'
      BY <1>1, <2>2 DEF Doomed
    <2>. QED  BY <1>1, <1>6, <1>7, <2>5, <2>6, Paid
  <1>9. CASE \/ Exchanging /\ ~\E t \in Consumed : Answered(t)
             \/ pc = "round" /\ ~IsEnrolled
    <2>1. \A t \in Consumed : ~Stored(t)
      <3>1. CASE Exchanging
        BY <3>1 DEF CourseInv, NoneStored
      <3>2. CASE ~IsEnrolled
        BY <1>1, <3>2, ByNumbers DEF Stored, Loadable, IsEnrolled, Absent
      <3>. QED  BY <1>9, <3>1, <3>2
    <2>2. \A t \in Consumed : ~Safe(t)
      BY <1>9, <2>1 DEF Safe, Answered, Persisting, Writing, Exchanging
    <2>3. Lost' \subseteq Lost
      BY <1>4, <2>2 DEF Lost
    <2>. QED  BY <1>1, <1>6, <1>7, <2>3, Paid
  <1>10. CASE ~Exchanging /\ (pc = "round" => IsEnrolled)
    <2>1. PICK x : \A t \in Consumed : Safe(t) => t = x
      BY <1>10, OneSafe
    <2>2. Lost' \subseteq Lost \cup {x}
      BY <1>4, <2>1 DEF Lost
    <2>3. IsEnrolled => IsEnrolled'
      BY <1>2, <1>3 DEF IsEnrolled, Absent
    <2>4. ~Doomed'
      BY <1>1, <1>10, <2>3 DEF Doomed, Asking, Exchanging
    <2>. QED  BY <1>1, <1>6, <1>7, <2>2, <2>4, Paid
  <1>. QED  BY <1>8, <1>9, <1>10

(* A new token is written while the agent is off, and is not consumed yet. *)
LEMMA NewTokenPays ==
    ASSUME EnrollInv, CourseInv, Budget, NEW u \in Tokens, NewToken(u)
    PROVE  CourseInv' /\ Budget'
  <1>1. /\ UNCHANGED <<mode, file, dir, pc, kp, cur, step, mem, reqs, rows, by, upsets>>
        /\ pc = "off" /\ tokens[u] = "unissued" /\ tokens' = [tokens EXCEPT ![u] = "issued"]
    BY DEF NewToken, agent
  <1>2. /\ cur = 0 /\ upsets \in Nat /\ step \in 0..7 /\ ServerTyped
        /\ \A t : ~Answered(t) /\ ~Persisting(t)
    BY <1>1 DEF CourseInv, Asked, Answered, Persisting, Writing, EnrollInv, ServerInv
  <1>3. Consumed' = Consumed /\ \A t : Stored(t)' <=> Stored(t)
    BY <1>1, <1>2, StoredStays DEF Consumed, ServerTyped
  <1>4. Housed'
    BY <1>1, HousedStays DEF CourseInv
  <1>5. CourseInv'
    BY <1>1, <1>2, <1>4 DEF CourseInv, OldKey, Asked, NewSet, NoneStored, Exchanging, Writing
  <1>6. Lost' \subseteq Lost
    BY <1>2, <1>3 DEF Lost, Safe
  <1>7. Unheard' \subseteq Unheard /\ ~Doomed'
    BY <1>1 DEF Unheard, Open, Doomed, Asking, Exchanging
  <1>. QED  BY <1>1, <1>2, <1>5, <1>6, <1>7, Free

(* Nothing is consumed at the start.                                       *)
LEMMA BudgetInit == Init => CourseInv /\ Budget
  <1>. SUFFICES ASSUME Init PROVE CourseInv /\ Budget
    OBVIOUS
  <1>1. /\ pc = "off" /\ cur = 0 /\ step = 0 /\ upsets = 0 /\ rows = {Old} /\ reqs = {}
        /\ Old.id = 1
    BY DEF Init, Old
  <1>2. Housed
    <2>1. CASE file = SetOf(Old.id, Old.key)
      <3>1. file["cert"].is = "whole" /\ Absent.is = "absent"
        BY <2>1 DEF SetOf, Files, Absent
      <3>2. file["cert"] # Absent
        BY <3>1
      <3>. QED  BY <3>2 DEF Init, Housed, Installed
    <2>2. CASE file = [f \in Files |-> Absent]
      BY <2>2 DEF Housed
    <2>. QED  BY <2>1, <2>2 DEF Init
  <1>3. CourseInv
    BY <1>1, <1>2 DEF CourseInv, OldKey, Asked, NewSet, NoneStored, Exchanging, Writing
  <1>4. Lost = {} /\ Unheard = {} /\ ~Doomed
    BY <1>1 DEF Init, Lost, Consumed, Unheard, Open, Doomed, Asking, Exchanging
  <1>. QED  BY <1>1, <1>3, <1>4, FS_EmptySet DEF Budget

(* CourseInv and Budget are inductive.                                     *)
LEMMA BudgetStep == EnrollInv /\ CourseInv /\ Budget /\ [Next]_vars => CourseInv' /\ Budget'
  <1>. SUFFICES ASSUME EnrollInv, CourseInv, Budget, [Next]_vars
                PROVE  CourseInv' /\ Budget'
    OBVIOUS
  <1>1. CASE Start \/ Check \/ Load \/ BeginExchange \/ RoundWait
    BY <1>1, BeforeRequestPays
  <1>2. CASE Answer \/ NoAnswer \/ Malformed \/ Timeout \/ Untrusted
    BY <1>2, AnswerPays
  <1>3. CASE EnsureDirectory \/ CreateNew \/ Write \/ Harden \/ PersistFails \/ Hygiene
    BY <1>3, PersistPays
  <1>4. CASE Stop \/ Crash
    BY <1>4, EndPays
  <1>5. CASE Remove \/ \E S \in SUBSET Files \ {{}} : Restore(S)
    BY <1>5, RemovePays, RestorePays
  <1>6. CASE Send
    BY <1>6, SendPays
  <1>7. CASE \/ \E r \in reqs : Arrive(r) \/ Consume(r) \/ ServerError(r) \/ LoseRequest(r)
             \/ \E t \in Tokens : Expire(t)
    BY <1>7, ServerPays
  <1>8. CASE \E r \in reqs : Commit(r) \/ CommitUnheard(r)
    BY <1>8, CommitPays
  <1>9. CASE \E t \in Tokens : NewToken(t)
    BY <1>9, NewTokenPays
  <1>10. CASE Calm \/ UNCHANGED vars
    <2>1. UNCHANGED <<mode, host, agent, reqs, rows, tokens, by, upsets>>
      BY <1>10 DEF Calm, vars, server
    <2>. QED  BY <2>1, RequestsGoOn
  <1>. QED  BY <1>1, <1>2, <1>3, <1>4, <1>5, <1>6, <1>7, <1>8, <1>9, <1>10
            DEF Next, AgentStep, ServerStep, Fault, Operator

(* A consumed token costs the agent its identity only through an upset,    *)
(* and an upset costs one token, for any number of tokens, overlapping     *)
(* requests, retries and crashes (enroll.ts, the transaction;              *)
(* enrollment.rs, the retries; identity.rs, persist before hygiene).       *)
THEOREM UpsetsPay == Spec => []TokensLostToUpsets
  <1>1. EnrollInv /\ CourseInv /\ Budget => TokensLostToUpsets
    <2>. SUFFICES ASSUME EnrollInv, CourseInv, Budget
                  PROVE  TokensLostToUpsets
      OBVIOUS
    <2>. DEFINE lost == {t \in Tokens : tokens[t] = "consumed" /\ ~Held(t)}
    <2>1. \A t \in Consumed : Safe(t) => Held(t)
      BY DEF Safe, Stored, Answered, Persisting, Writing, Held
    <2>2. lost \subseteq Lost
      BY <2>1 DEF Lost, Consumed
    <2>3. /\ IsFiniteSet(Lost) /\ Cardinality(Lost) \in Nat /\ Cardinality(Unheard) \in Nat
          /\ upsets \in Nat
      BY LossesFinite DEF EnrollInv, ServerInv, CourseInv
    <2>4. Cardinality(lost) \in Nat /\ Cardinality(lost) <= Cardinality(Lost)
      <3>. HIDE DEF lost
      <3>. QED  BY <2>2, <2>3, NoMore
    <2>5. Cardinality(lost) <= upsets
      <3>. HIDE DEF lost
      <3>. QED  BY <2>3, <2>4 DEF Budget
    <2>. QED  BY <2>5 DEF TokensLostToUpsets
  <1>. QED  BY <1>1, EnrollInit, EnrollStep, BudgetInit, BudgetStep, PTL DEF Spec
=============================================================================
