--------------------------- MODULE AccountsProofs ---------------------------
(***************************************************************************)
(* For any addresses, passwords and number of requests: one account per    *)
(* address, no login and no registration refused wrongly, and every token  *)
(* names the account it was issued for.                                    *)
(*                                                                         *)
(* None of this is inductive alone.  CallOK says what a request knows      *)
(* between two of its steps, in terms of the accounts there are; rows only *)
(* grow, so what it knows stays true whatever the other requests do.       *)
(***************************************************************************)
EXTENDS Accounts, TLAPS

\* What the record k of a request says is so, when the accounts are R.
CallOK(k, R) ==
  /\ k.pc # "idle" => k.status = 0
  /\ k.pc \in {"hash", "insert"} => k.op = "register"
  /\ k.pc \in {"find", "check"} => k.op = "login"
  /\ k.pc = "get" => k.op = "me"
  /\ k.pc = "insert" => First72[k.password] = k.password
  /\ k.pc = "check" => \E r \in R : r.id = k.id /\ r.email = Normal[k.email]
  /\ k.pc \in {"find", "check"} /\ k.known => \E r \in R : Opens(Meant(k.email, k.password), r)
  /\ k.pc = "issue" => \E r \in R : r.id = k.id /\ Opens(Meant(k.email, k.password), r)
  /\ k.pc = "get" /\ k.known => \E r \in R : r.id = k.id
  /\ k.op = "login" /\ k.status = 401 => ~k.known
  /\ k.status = 409 => \E r \in R : r.email = Normal[k.email]
  /\ k.op = "me" /\ k.known => k.status # 404

TokensOK(T, R, n) == \A t \in T : /\ t.restart <= n
                                  /\ t.restart = n => \E r \in R : r.id = t.id /\ Opens(t, r)

AccountInv == /\ TypeOK /\ OneAccount
              /\ \A c \in Calls : CallOK(call[c], rows)
              /\ TokensOK(tokens, rows, restarts)

USE AccountAssumption

LEMMA SomeTyped == SomeEmail \in Emails /\ SomePassword \in Passwords /\ 0 \in 0..MaxId
BY DEF SomeEmail, SomePassword

\* A request keeps its type when several of its fields are set, one after another.
LEMMA Moved ==
  ASSUME NEW a \in Call, NEW pc \in {"check", "issue", "get"}, NEW id \in 0..MaxId
  PROVE  [a EXCEPT !.pc = pc, !.id = id] \in Call
<1> DEFINE b == [a EXCEPT !.pc = pc]
           d == [b EXCEPT !.id = id]
<1>1. [a EXCEPT !.pc = pc, !.id = id] = d
  OBVIOUS
<1>2. b \in Call
  BY DEF Call
<1> HIDE DEF b
<1> QED  BY <1>1, <1>2 DEF Call

LEMMA Begun ==
  ASSUME NEW a \in Call, NEW pc \in {"hash", "find", "get"},
         NEW op \in {"register", "login", "me"}, NEW e \in Emails, NEW p \in Passwords,
         NEW known \in BOOLEAN
  PROVE  [a EXCEPT !.pc = pc, !.op = op, !.email = e, !.password = p, !.known = known] \in Call
<1> DEFINE b == [a EXCEPT !.pc = pc]
           d == [b EXCEPT !.op = op]
           f == [d EXCEPT !.email = e]
           g == [f EXCEPT !.password = p]
           h == [g EXCEPT !.known = known]
<1>1. [a EXCEPT !.pc = pc, !.op = op, !.email = e, !.password = p, !.known = known] = h
  OBVIOUS
<1>2. b \in Call
  BY DEF Call
<1> HIDE DEF b
<1>3. d \in Call
  BY <1>2 DEF Call
<1> HIDE DEF d
<1>4. f \in Call
  BY <1>3 DEF Call
<1> HIDE DEF f
<1>5. g \in Call
  BY <1>4 DEF Call
<1> HIDE DEF g
<1> QED  BY <1>1, <1>5 DEF Call

LEMMA BegunMe ==
  ASSUME NEW a \in Call, NEW id \in 0..MaxId, NEW known \in BOOLEAN
  PROVE  [a EXCEPT !.pc = "get", !.op = "me", !.id = id, !.known = known] \in Call
<1> DEFINE b == [a EXCEPT !.pc = "get"]
           d == [b EXCEPT !.op = "me"]
           f == [d EXCEPT !.id = id]
           g == [f EXCEPT !.known = known]
<1>1. [a EXCEPT !.pc = "get", !.op = "me", !.id = id, !.known = known] = g
  OBVIOUS
<1>2. b \in Call
  BY DEF Call
<1> HIDE DEF b
<1>3. d \in Call
  BY <1>2 DEF Call
<1> HIDE DEF d
<1>4. f \in Call
  BY <1>3 DEF Call
<1> HIDE DEF f
<1> QED  BY <1>1, <1>4 DEF Call

LEMMA Refused ==
  ASSUME NEW a \in Call, NEW status \in Refusals
  PROVE  [a EXCEPT !.pc = "idle", !.password = SomePassword, !.id = 0, !.status = status] \in Call
<1> DEFINE b == [a EXCEPT !.pc = "idle"]
           d == [b EXCEPT !.password = SomePassword]
           f == [d EXCEPT !.id = 0]
           g == [f EXCEPT !.status = status]
<1>1. [a EXCEPT !.pc = "idle", !.password = SomePassword, !.id = 0, !.status = status] = g
  OBVIOUS
<1>2. b \in Call
  BY DEF Call
<1> HIDE DEF b
<1>3. d \in Call
  BY <1>2, SomeTyped DEF Call
<1> HIDE DEF d
<1>4. f \in Call
  BY <1>3, SomeTyped DEF Call
<1> HIDE DEF f
<1> QED  BY <1>1, <1>4 DEF Call, Refusals

LEMMA RefusedMe == [NoCall EXCEPT !.op = "me", !.status = 401] \in Call
BY SomeTyped DEF NoCall, Call

LEMMA NoCallOK ==
  ASSUME NEW R
  PROVE  NoCall \in Call /\ CallOK(NoCall, R)
BY SomeTyped DEF NoCall, Call, CallOK

LEMMA MeantTyped ==
  ASSUME NEW e \in Emails, NEW p \in Passwords
  PROVE  /\ Meant(e, p).email = Normal[e] /\ Meant(e, p).email \in Emails
         /\ Meant(e, p).password = First72[p] /\ Meant(e, p).password \in Passwords
BY DEF Meant

\* What a request knows stays true as accounts are added.
LEMMA CallKept ==
  ASSUME NEW k, NEW R, NEW S, R \subseteq S, CallOK(k, R)
  PROVE  CallOK(k, S)
BY DEF CallOK

\* One request moves on, and accounts and tokens are at most added.
LEMMA OneCallMoves ==
  ASSUME AccountInv, NEW c \in Calls, NEW k, call' = [call EXCEPT ![c] = k],
         k \in Call, CallOK(k, rows'), rows \subseteq rows', rows' \subseteq Row,
         lastId' \in 0..MaxId, \A r \in rows' : r.id <= lastId', OneAccount',
         tokens' \subseteq Token, TokensOK(tokens', rows', restarts),
         UNCHANGED <<backend, restarts>>
  PROVE  AccountInv'
<1>1. TypeOK'
  BY DEF AccountInv, TypeOK
<1>2. ASSUME NEW d \in Calls PROVE CallOK(call'[d], rows')
  <2>1. CASE d = c
    BY <2>1 DEF AccountInv, TypeOK
  <2>2. CASE d # c
    <3>1. call'[d] = call[d] /\ CallOK(call[d], rows)
      BY <2>2 DEF AccountInv, TypeOK
    <3> QED  BY <3>1, CallKept
  <2> QED  BY <2>1, <2>2
<1> QED  BY <1>1, <1>2 DEF AccountInv

\* The same when nothing but the request changes.
LEMMA OnlyCallMoves ==
  ASSUME AccountInv, NEW c \in Calls, NEW k, call' = [call EXCEPT ![c] = k],
         k \in Call, CallOK(k, rows), UNCHANGED <<Users, tokens>>
  PROVE  AccountInv'
<1>1. rows' = rows /\ lastId' = lastId /\ tokens' = tokens /\ UNCHANGED <<backend, restarts>>
  BY DEF Users
<1>2. rows' \subseteq Row /\ lastId' \in 0..MaxId /\ (\A r \in rows' : r.id <= lastId')
      /\ tokens' \subseteq Token /\ TokensOK(tokens', rows', restarts)
  BY <1>1 DEF AccountInv, TypeOK
<1>3. OneAccount'
  BY <1>1 DEF AccountInv, OneAccount
<1> QED  BY <1>1, <1>2, <1>3, OneCallMoves

\* A new account has an address and an id of its own.
LEMMA AccountAdded ==
  ASSUME AccountInv, NEW c \in Calls, lastId < MaxId, ~Taken(call[c].email),
         call[c].pc = "insert", NEW r, lastId' = lastId + 1,
         r = [id |-> lastId + 1, email |-> Stored(call[c].email), password |-> call[c].password],
         rows' = rows \cup {r}
  PROVE  /\ rows' \subseteq Row /\ lastId' \in 0..MaxId /\ \A s \in rows' : s.id <= lastId'
         /\ OneAccount' /\ r.id = lastId + 1
         /\ Opens(Meant(call[c].email, call[c].password), r)
<1>1. /\ call[c].email \in Emails /\ call[c].password \in Passwords /\ lastId \in 0..MaxId
      /\ rows \subseteq Row /\ \A s \in rows : s.id <= lastId
  BY DEF AccountInv, TypeOK, Call
<1>2. First72[call[c].password] = call[c].password
  BY DEF AccountInv, CallOK
<1>3. r \in Row /\ r.id = lastId + 1 /\ r.email = Normal[call[c].email]
      /\ r.password = call[c].password
  BY <1>1 DEF Row, Ids, Stored
<1>4. \A s \in rows : s.email # r.email /\ s.id # r.id
  BY <1>1, <1>3 DEF Taken, Stored, Row, Ids
<1>5. OneAccount'
  BY <1>4 DEF AccountInv, OneAccount
<1> QED  BY <1>1, <1>2, <1>3, <1>5, MeantTyped DEF Opens, Row, Ids

LEMMA InitAccounts == Init => AccountInv
<1> SUFFICES ASSUME Init PROVE AccountInv
  OBVIOUS
<1>1. TypeOK /\ OneAccount /\ TokensOK(tokens, rows, restarts)
  BY NoCallOK DEF Init, TypeOK, OneAccount, TokensOK
<1>2. \A c \in Calls : CallOK(call[c], rows)
  BY NoCallOK DEF Init
<1> QED  BY <1>1, <1>2 DEF AccountInv

\* How a request is answered.
LEMMA Answered ==
  ASSUME AccountInv, NEW c \in Calls, NEW status \in {0, 401, 404, 409, 200, 201, 500},
         Answers(c, status)
  PROVE  \E k \in Call :
           /\ call' = [call EXCEPT ![c] = k]
           /\ \/ status \in Refusals /\ k.pc = "idle" /\ k.status = status
                 /\ k.op = call[c].op /\ k.email = call[c].email /\ k.known = call[c].known
              \/ status \notin Refusals /\ k = NoCall
<1> DEFINE k == IF status \in Refusals
                  THEN [call[c] EXCEPT !.pc = "idle", !.password = SomePassword,
                                       !.id = 0, !.status = status]
                  ELSE NoCall
<1>1. SomePassword \in Passwords /\ call[c] \in Call
  BY DEF SomePassword, AccountInv, TypeOK
<1>2. k \in Call
  BY <1>1, NoCallOK, Refused
<1>3. call' = [call EXCEPT ![c] = k]
  BY DEF Answers
<1>4. status \in Refusals =>
        /\ k.pc = "idle" /\ k.status = status /\ k.op = call[c].op
        /\ k.email = call[c].email /\ k.known = call[c].known
  BY <1>1 DEF Call
<1>5. status \notin Refusals => k = NoCall
  OBVIOUS
<1> HIDE DEF k
<1> QED  BY <1>2, <1>3, <1>4, <1>5

\* An answer that is no refusal.
LEMMA AnsweredWell ==
  ASSUME AccountInv, NEW c \in Calls, NEW status \in {200, 201, 500}, Answers(c, status)
  PROVE  call' = [call EXCEPT ![c] = NoCall]
<1>1. status \notin Refusals
  BY DEF Refusals
<1> QED  BY <1>1 DEF Answers

LEMMA BeginAccounts ==
  ASSUME AccountInv, NEW c \in Calls, BeginRegister(c) \/ BeginLogin(c)
  PROVE  AccountInv'
<1>1. PICK op \in {"register", "login"}, e \in Emails, p \in Passwords :
        LET pc == IF op = "register" THEN "hash" ELSE "find"
        IN  /\ call' = [call EXCEPT ![c] =
                 [NoCall EXCEPT !.pc = pc, !.op = op, !.email = e, !.password = p,
                                !.known = \E r \in rows : Opens(Meant(e, p), r)]]
            /\ UNCHANGED <<Users, tokens>>
  BY DEF BeginRegister, BeginLogin, Begin
<1> DEFINE pc == IF op = "register" THEN "hash" ELSE "find"
           known == \E r \in rows : Opens(Meant(e, p), r)
           k == [NoCall EXCEPT !.pc = pc, !.op = op, !.email = e, !.password = p, !.known = known]
<1>2. NoCall \in Call /\ NoCall.status = 0 /\ known \in BOOLEAN
  BY NoCallOK DEF NoCall
<1>3. /\ k.pc = pc /\ k.op = op /\ k.email = e /\ k.password = p /\ k.known = known
      /\ k.status = 0
  BY <1>2 DEF Call
<1>5. k \in Call
  BY <1>2, Begun
<1>4. CallOK(k, rows)
  <2> HIDE DEF k
  <2> QED  BY <1>3 DEF CallOK
<1> QED  BY <1>1, <1>4, <1>5, OnlyCallMoves

LEMMA HashAccounts ==
  ASSUME AccountInv, NEW c \in Calls, Hash(c)
  PROVE  AccountInv'
<1>1. CASE First72[call[c].password] = call[c].password
  <2> DEFINE k == [call[c] EXCEPT !.pc = "insert"]
  <2>1. call[c] \in Call /\ CallOK(call[c], rows) /\ call[c].pc = "hash"
    BY DEF Hash, AccountInv, TypeOK
  <2>2. k \in Call /\ CallOK(k, rows)
    BY <1>1, <2>1 DEF CallOK, Call
  <2>3. call' = [call EXCEPT ![c] = k] /\ UNCHANGED <<Users, tokens>>
    BY <1>1 DEF Hash, Goes
  <2> QED  BY <2>2, <2>3, OnlyCallMoves
<1>2. CASE First72[call[c].password] # call[c].password
  <2>1. call' = [call EXCEPT ![c] = NoCall] /\ UNCHANGED <<Users, tokens>>
    BY <1>2, AnsweredWell DEF Hash
  <2> QED  BY <2>1, NoCallOK, OnlyCallMoves
<1> QED  BY <1>1, <1>2

\* A token stays right as accounts are added.
LEMMA TokensKept ==
  ASSUME AccountInv, rows \subseteq rows', tokens' = tokens
  PROVE  tokens' \subseteq Token /\ TokensOK(tokens', rows', restarts)
BY DEF AccountInv, TypeOK, TokensOK

LEMMA InsertAccounts ==
  ASSUME AccountInv, NEW c \in Calls, Insert(c)
  PROVE  AccountInv'
<1> DEFINE r == [id |-> lastId + 1, email |-> Stored(call[c].email), password |-> call[c].password]
           k == [call[c] EXCEPT !.pc = "issue", !.id = lastId + 1]
<1>1. /\ lastId < MaxId /\ ~Taken(call[c].email) /\ call[c].pc = "insert"
      /\ lastId' = lastId + 1 /\ rows' = rows \cup {r}
      /\ call' = [call EXCEPT ![c] = k]
      /\ UNCHANGED <<backend, tokens, restarts>>
  BY DEF Insert
<1>2. /\ call[c] \in Call /\ CallOK(call[c], rows) /\ lastId \in Nat
  BY DEF AccountInv, TypeOK
<1>3. /\ rows' \subseteq Row /\ lastId' \in 0..MaxId /\ \A s \in rows' : s.id <= lastId'
      /\ OneAccount' /\ r.id = lastId + 1
      /\ Opens(Meant(call[c].email, call[c].password), r)
  BY <1>1, AccountAdded
<1>4. /\ k.id = lastId + 1 /\ k.pc = "issue" /\ k.email = call[c].email
      /\ k.password = call[c].password /\ k.op = "register" /\ k.status = 0
  BY <1>1, <1>2 DEF CallOK, Call
<1>7. k \in Call
  BY <1>1, <1>2, <1>3, Moved
<1>5. CallOK(k, rows')
  <2> HIDE DEF k, r
  <2> QED  BY <1>1, <1>3, <1>4 DEF CallOK
<1>6. tokens' \subseteq Token /\ TokensOK(tokens', rows', restarts)
  BY <1>1, TokensKept
<1> QED  BY <1>1, <1>3, <1>5, <1>6, <1>7, OneCallMoves

LEMMA RefusedAccounts ==
  ASSUME AccountInv, NEW c \in Calls, InsertRefused(c)
  PROVE  AccountInv'
<1>1. /\ call[c].pc = "insert" /\ Taken(call[c].email) /\ Answers(c, 409)
      /\ lastId' = lastId \/ (lastId < MaxId /\ lastId' = lastId + 1)
      /\ UNCHANGED <<backend, rows, tokens, restarts>>
  BY DEF InsertRefused
<1>2. PICK k \in Call : /\ call' = [call EXCEPT ![c] = k]
                        /\ k.pc = "idle" /\ k.status = 409 /\ k.op = call[c].op
                        /\ k.email = call[c].email
  BY <1>1, Answered DEF Refusals
<1>3. call[c].op = "register"
  BY <1>1 DEF AccountInv, CallOK
<1>4. CallOK(k, rows')
  BY <1>1, <1>2, <1>3 DEF CallOK, Taken, Stored
<1>5. /\ rows' \subseteq Row /\ lastId' \in 0..MaxId /\ \A s \in rows' : s.id <= lastId'
      /\ OneAccount'
  BY <1>1 DEF AccountInv, TypeOK, OneAccount, Row, Ids
<1>6. tokens' \subseteq Token /\ TokensOK(tokens', rows', restarts)
  BY <1>1, TokensKept
<1> QED  BY <1>1, <1>2, <1>4, <1>5, <1>6, OneCallMoves

LEMMA InsertFailsAccounts ==
  ASSUME AccountInv, NEW c \in Calls, InsertFails(c)
  PROVE  AccountInv'
<1>1. call[c].pc = "insert" /\ Answers(c, 500) /\ UNCHANGED <<backend, tokens, restarts>>
  BY DEF InsertFails, StatusOf
<1>2. call' = [call EXCEPT ![c] = NoCall]
  BY <1>1, AnsweredWell
<1>3. CASE UNCHANGED <<rows, lastId>>
  BY <1>1, <1>2, <1>3, NoCallOK, OnlyCallMoves DEF Users
<1>4. CASE ~UNCHANGED <<rows, lastId>>
  <2> DEFINE r == [id |-> lastId + 1, email |-> Stored(call[c].email),
                   password |-> call[c].password]
  <2>1. /\ lastId < MaxId /\ ~Taken(call[c].email) /\ lastId' = lastId + 1
        /\ rows' = rows \cup {r}
    BY <1>4 DEF InsertFails
  <2>2. /\ rows' \subseteq Row /\ lastId' \in 0..MaxId /\ \A s \in rows' : s.id <= lastId'
        /\ OneAccount'
    BY <1>1, <2>1, AccountAdded
  <2>3. tokens' \subseteq Token /\ TokensOK(tokens', rows', restarts)
    BY <1>1, <2>1, TokensKept
  <2> QED  BY <1>1, <1>2, <2>1, <2>2, <2>3, NoCallOK, OneCallMoves
<1> QED  BY <1>3, <1>4

LEMMA FindAccounts ==
  ASSUME AccountInv, NEW c \in Calls, Find(c)
  PROVE  AccountInv'
<1>1. /\ call[c].pc = "find" /\ UNCHANGED <<Users, tokens>>
      /\ call[c] \in Call /\ CallOK(call[c], rows) /\ rows \subseteq Row
  BY DEF Find, AccountInv, TypeOK
<1>2. ASSUME NEW r \in rows, r.email = Sought(call[c].email),
             call' = [call EXCEPT ![c].pc = "check", ![c].id = r.id]
      PROVE  AccountInv'
  <2> DEFINE k == [call[c] EXCEPT !.pc = "check", !.id = r.id]
  <2>1. call' = [call EXCEPT ![c] = k]
    BY <1>2
  <2>4. r.id \in 0..MaxId
    BY <1>1, <1>2 DEF Row, Ids
  <2>5. k \in Call
    BY <1>1, <2>4, Moved
  <2>2. /\ k.pc = "check" /\ k.id = r.id /\ k.op = call[c].op
        /\ k.email = call[c].email /\ k.password = call[c].password
        /\ k.known = call[c].known /\ k.status = call[c].status
    BY <1>1, <2>1 DEF Call
  <2>3. CallOK(k, rows)
    <3> HIDE DEF k
    <3> QED  BY <1>1, <1>2, <2>2 DEF CallOK, Sought
  <2> QED  BY <1>1, <2>1, <2>5, <2>3, OnlyCallMoves
<1>3. ASSUME \A r \in rows : r.email # Sought(call[c].email), Answers(c, 401)
      PROVE  AccountInv'
  <2>1. PICK k \in Call : /\ call' = [call EXCEPT ![c] = k]
                          /\ k.pc = "idle" /\ k.status = 401 /\ k.op = call[c].op
                          /\ k.known = call[c].known
    BY <1>3, Answered DEF Refusals
  <2>2. call[c].op = "login" /\ ~call[c].known
    BY <1>1, <1>3 DEF CallOK, Sought, Opens, Meant
  <2>3. CallOK(k, rows)
    BY <2>1, <2>2 DEF CallOK
  <2> QED  BY <1>1, <2>1, <2>3, OnlyCallMoves
<1> QED  BY <1>2, <1>3 DEF Find

LEMMA CheckAccounts ==
  ASSUME AccountInv, NEW c \in Calls, Check(c)
  PROVE  AccountInv'
<1>1. /\ call[c].pc = "check" /\ UNCHANGED <<Users, tokens>> /\ OneAccount
      /\ call[c] \in Call /\ CallOK(call[c], rows)
  BY DEF Check, AccountInv, TypeOK
<1>2. PICK r \in rows : /\ r.id = call[c].id
                        /\ IF r.password = First72[call[c].password]
                             THEN Goes(c, "issue") ELSE Answers(c, 401)
  BY DEF Check
<1>3. r.email = Normal[call[c].email] /\ call[c].op = "login"
  BY <1>1, <1>2 DEF CallOK, OneAccount
<1>4. CASE r.password = First72[call[c].password]
  <2> DEFINE k == [call[c] EXCEPT !.pc = "issue"]
  <2>1. call' = [call EXCEPT ![c] = k]
    BY <1>2, <1>4 DEF Goes
  <2>2. /\ k \in Call /\ k.pc = "issue" /\ k.id = call[c].id /\ k.op = call[c].op
        /\ k.email = call[c].email /\ k.password = call[c].password
        /\ k.known = call[c].known /\ k.status = call[c].status
    BY <1>1 DEF Call
  <2>3. CallOK(k, rows)
    <3> HIDE DEF k
    <3> QED  BY <1>1, <1>2, <1>3, <1>4, <2>2 DEF CallOK, Opens, Meant
  <2> QED  BY <1>1, <2>1, <2>2, <2>3, OnlyCallMoves
<1>5. CASE r.password # First72[call[c].password]
  <2>1. PICK k \in Call : /\ call' = [call EXCEPT ![c] = k]
                          /\ k.pc = "idle" /\ k.status = 401 /\ k.op = call[c].op
                          /\ k.known = call[c].known
    BY <1>2, <1>5, Answered DEF Refusals
  <2>2. ~call[c].known
    BY <1>1, <1>2, <1>3, <1>5 DEF CallOK, Opens, Meant, OneAccount
  <2>3. CallOK(k, rows)
    BY <1>3, <2>1, <2>2 DEF CallOK
  <2> QED  BY <1>1, <2>1, <2>3, OnlyCallMoves
<1> QED  BY <1>4, <1>5

LEMMA IssueAccounts ==
  ASSUME AccountInv, NEW c \in Calls, Issue(c)
  PROVE  AccountInv'
<1> DEFINE m == Meant(call[c].email, call[c].password)
           t == [id |-> call[c].id, email |-> m.email, password |-> m.password,
                 restart |-> restarts]
<1>1. /\ call[c].pc = "issue" /\ tokens' = tokens \cup {t} /\ UNCHANGED Users
      /\ call[c] \in Call /\ CallOK(call[c], rows)
  BY DEF Issue, IssuedId, AccountInv, TypeOK
<1>2. call' = [call EXCEPT ![c] = NoCall]
  BY AnsweredWell DEF Issue
<1>3. PICK r \in rows : r.id = call[c].id /\ Opens(m, r)
  BY <1>1 DEF CallOK
<1>4. /\ rows' = rows /\ lastId' = lastId /\ UNCHANGED <<backend, restarts>>
      /\ rows \subseteq Row /\ lastId \in 0..MaxId /\ \A s \in rows : s.id <= lastId
      /\ restarts \in 0..MaxRestarts /\ tokens \subseteq Token /\ OneAccount'
      /\ TokensOK(tokens, rows, restarts)
  BY <1>1 DEF Users, AccountInv, TypeOK, OneAccount
<1>5. m.email \in Emails /\ m.password \in Passwords
  BY <1>1, MeantTyped DEF Call
<1>6. t \in Token
  <2>1. call[c].id \in Ids
    BY <1>3, <1>4 DEF Row
  <2> QED  BY <1>4, <1>5, <2>1 DEF Token
<1>7. Opens(t, r)
  BY <1>3 DEF Opens
<1> HIDE DEF t, m
<1>8. t.restart = restarts /\ t.id = call[c].id
  BY DEF t
<1>9. TokensOK(tokens', rows', restarts)
  BY <1>1, <1>3, <1>4, <1>7, <1>8 DEF TokensOK
<1> QED  BY <1>1, <1>2, <1>4, <1>6, <1>9, NoCallOK, OneCallMoves

LEMMA MeAccounts ==
  ASSUME AccountInv, NEW c \in Calls, BeginMe(c) \/ GetUserByID(c)
  PROVE  AccountInv'
<1>1. UNCHANGED <<Users, tokens>> /\ call[c] \in Call /\ CallOK(call[c], rows)
      /\ NoCall \in Call /\ tokens \subseteq Token /\ TokensOK(tokens, rows, restarts)
  BY NoCallOK DEF BeginMe, GetUserByID, AccountInv, TypeOK
<1>2. ASSUME NEW t \in tokens,
             call' = [call EXCEPT ![c] = [NoCall EXCEPT !.pc = "get", !.op = "me",
                        !.id = t.id, !.known = (t.restart = restarts)]]
      PROVE  AccountInv'
  <2> DEFINE b == t.restart = restarts
             k == [NoCall EXCEPT !.pc = "get", !.op = "me", !.id = t.id, !.known = b]
  <2>6. b \in BOOLEAN
    OBVIOUS
  <2>1. t.id \in 0..MaxId
    BY <1>1 DEF Token, Ids
  <2>4. k \in Call
    <3> HIDE DEF b
    <3> QED  BY <1>1, <2>1, <2>6, BegunMe
  <2>2. k.pc = "get" /\ k.op = "me" /\ k.id = t.id /\ k.status = 0 /\ k.known = b
    <3> HIDE DEF b
    <3> QED  BY <1>1, NoCallOK DEF Call, NoCall
  <2>5. t.restart = restarts => \E r \in rows : r.id = t.id
    BY <1>1 DEF TokensOK
  <2>3. CallOK(k, rows)
    <3> HIDE DEF k
    <3>1. b => \E r \in rows : r.id = t.id
      BY <2>5
    <3> HIDE DEF b
    <3> QED  BY <2>2, <2>6, <3>1 DEF CallOK
  <2> QED  BY <1>1, <1>2, <2>3, <2>4, OnlyCallMoves
<1>3. ASSUME call' = [call EXCEPT ![c] = [NoCall EXCEPT !.op = "me", !.status = 401]]
      PROVE  AccountInv'
  <2> DEFINE k == [NoCall EXCEPT !.op = "me", !.status = 401]
  <2>2. k \in Call
    BY RefusedMe
  <2>3. k.op = "me" /\ k.status = 401 /\ k.pc = "idle" /\ k.known = FALSE
    BY DEF NoCall
  <2>1. k \in Call /\ CallOK(k, rows)
    <3> HIDE DEF k
    <3> QED  BY <2>2, <2>3 DEF CallOK
  <2> QED  BY <1>1, <1>3, <2>1, OnlyCallMoves
<1>4. ASSUME GetUserByID(c), \E r \in rows : r.id = call[c].id PROVE AccountInv'
  <2>1. call' = [call EXCEPT ![c] = NoCall]
    BY <1>4, AnsweredWell DEF GetUserByID
  <2> QED  BY <1>1, <2>1, NoCallOK, OnlyCallMoves
<1>5. ASSUME GetUserByID(c), ~\E r \in rows : r.id = call[c].id PROVE AccountInv'
  <2>1. PICK k \in Call : /\ call' = [call EXCEPT ![c] = k]
                          /\ k.pc = "idle" /\ k.status = 404 /\ k.op = call[c].op
                          /\ k.known = call[c].known
    BY <1>5, Answered DEF GetUserByID, Refusals
  <2>2. CallOK(k, rows)
    BY <1>1, <1>5, <2>1 DEF CallOK, GetUserByID
  <2> QED  BY <1>1, <2>1, <2>2, OnlyCallMoves
<1> QED  BY <1>2, <1>3, <1>4, <1>5 DEF BeginMe

LEMMA RestartAccounts ==
  ASSUME AccountInv, Restart
  PROVE  AccountInv'
<1>1. /\ rows' = {} /\ lastId' = 0 /\ call' = [c \in Calls |-> NoCall]
      /\ restarts' = restarts + 1 /\ restarts < MaxRestarts /\ restarts \in 0..MaxRestarts
      /\ UNCHANGED <<backend, tokens>>
  BY DEF Restart, AccountInv, TypeOK
<1>2. TypeOK'
  BY <1>1, NoCallOK DEF AccountInv, TypeOK
<1>3. OneAccount' /\ \A c \in Calls : CallOK(call'[c], rows')
  BY <1>1, NoCallOK DEF OneAccount
<1>4. TokensOK(tokens', rows', restarts')
  BY <1>1 DEF AccountInv, TypeOK, Token, TokensOK
<1> QED  BY <1>2, <1>3, <1>4 DEF AccountInv

LEMMA AccountInvariant == Spec => []AccountInv
<1>1. AccountInv /\ [Next]_vars => AccountInv'
  <2> SUFFICES ASSUME AccountInv, [Next]_vars PROVE AccountInv'
    OBVIOUS
  <2>1. ASSUME NEW c \in Calls, StepFails(c) \/ CallDies(c) PROVE AccountInv'
    <3>1. call' = [call EXCEPT ![c] = NoCall] /\ UNCHANGED <<Users, tokens>>
      BY <2>1, AnsweredWell DEF StepFails, CallDies
    <3> QED  BY <3>1, NoCallOK, OnlyCallMoves
  <2>2. CASE UNCHANGED vars
    BY <2>2 DEF vars, AccountInv, TypeOK, OneAccount
  <2> QED  BY <2>1, <2>2, BeginAccounts, HashAccounts, InsertAccounts, RefusedAccounts,
              InsertFailsAccounts, FindAccounts, CheckAccounts, IssueAccounts, MeAccounts,
              RestartAccounts DEF Next
<1> QED  BY InitAccounts, <1>1, PTL DEF Spec

\* Accounts, tokens and calls keep their types.
THEOREM AccountTypes == Spec => []TypeOK
<1>1. AccountInv => TypeOK
  BY DEF AccountInv
<1> QED  BY AccountInvariant, <1>1, PTL

\* CreateUser: one account per address and per id, however registrations overlap.
THEOREM AccountsOneEach == Spec => []OneAccount
<1>1. AccountInv => OneAccount
  BY DEF AccountInv
<1> QED  BY AccountInvariant, <1>1, PTL

\* login refuses nobody whose account was there when the login began.
THEOREM AccountsRefuseRightly == Spec => []RefusedRightly
<1>1. AccountInv => RefusedRightly
  BY DEF AccountInv, CallOK, RefusedRightly
<1> QED  BY AccountInvariant, <1>1, PTL

\* register says that an address is registered only if it is.
THEOREM AccountsConflictIsReal == Spec => []ConflictIsReal
<1>1. AccountInv => ConflictIsReal
  BY DEF AccountInv, CallOK, ConflictIsReal
<1> QED  BY AccountInvariant, <1>1, PTL

\* A token names the account of the credentials presented for it, and /auth/me
\* finds that account.
THEOREM AccountsTokenNamesOwner == Spec => []TokenNamesOwner
<1>1. AccountInv => TokenNamesOwner
  BY DEF AccountInv, CallOK, TokensOK, TokenNamesOwner
<1> QED  BY AccountInvariant, <1>1, PTL
=============================================================================
