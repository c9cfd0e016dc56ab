------------------------------ MODULE Accounts ------------------------------
(***************************************************************************)
(* internal/handlers/auth.go and internal/storage/users.go: registration,  *)
(* login, tokens and /auth/me, over the users table or over the map that   *)
(* replaces it when there is no database.                                  *)
(*                                                                         *)
(* A request of a client is a call on any replica.  The INSERT is one step *)
(* because it is one statement, or runs under the map's mutex; between the *)
(* steps of a call others run, and its replica may die.                    *)
(***************************************************************************)
EXTENDS Naturals, FiniteSets

CONSTANTS Calls,        \* requests being served, on all replicas
          Emails,       \* addresses as clients type them
          Normal,       \* normalizeEmail: what TrimSpace and ToLower make of one
          Passwords,    \* passwords of at least eight bytes
          First72,      \* the bytes of a password that bcrypt looks at
          Backends,     \* where the users are kept: "postgres", "memory"
          MaxId,        \* bound on the ids given out
          MaxRestarts   \* bound on the restarts of the memory store

ASSUME AccountAssumption ==
  /\ Emails # {} /\ Passwords # {}
  /\ Normal \in [Emails -> Emails] /\ \A e \in Emails : Normal[Normal[e]] = Normal[e]
  /\ First72 \in [Passwords -> Passwords]
  /\ \A p \in Passwords : First72[First72[p]] = First72[p]
  /\ Backends \subseteq {"postgres", "memory"}
  /\ MaxId \in Nat /\ MaxRestarts \in Nat

VARIABLES backend,   \* which store main.go has wired
          rows,      \* the accounts
          lastId,    \* the sequence of users.id, or nextID
          call,      \* what each request does next, or its answer
          tokens,    \* the tokens issued, and what was presented for them
          restarts   \* how often the accounts were lost (memory only)

vars == <<backend, rows, lastId, call, tokens, restarts>>

Ids == 1..MaxId
Row == [id : Ids, email : Emails, password : Passwords]
Token == [id : Ids, email : Emails, password : Passwords, restart : 0..MaxRestarts]

\* id      the account it is about; status  the refusal it was answered with, or 0
\* known   when it began, there was an account that its credentials open, or its
\*         token was issued since the last restart (history)
Call == [pc : {"idle", "hash", "insert", "find", "check", "issue", "get"},
         op : {"none", "register", "login", "me"}, email : Emails, password : Passwords,
         id : 0..MaxId, known : BOOLEAN, status : {0, 401, 404, 409}]

SomeEmail == CHOOSE e \in Emails : TRUE
SomePassword == CHOOSE p \in Passwords : TRUE
NoCall == [pc |-> "idle", op |-> "none", email |-> SomeEmail, password |-> SomePassword,
           id |-> 0, known |-> FALSE, status |-> 0]

Init == /\ backend \in Backends
        /\ rows = {}
        /\ lastId = 0
        /\ call = [c \in Calls |-> NoCall]
        /\ tokens = {}
        /\ restarts = 0

Goes(c, pc) == call' = [call EXCEPT ![c].pc = pc]
\* Of the answers the refusals are kept: what they say can be wrong.
Refusals == {401, 404, 409}
Answers(c, status) ==
  call' = [call EXCEPT ![c] =
    IF status \in Refusals
      THEN [@ EXCEPT !.pc = "idle", !.password = SomePassword, !.id = 0, !.status = status]
      ELSE NoCall]
Users == <<backend, rows, lastId, restarts>>

\* What credentials come to, and the account that they open.
Meant(email, password) == [email |-> Normal[email], password |-> First72[password]]
Opens(k, r) == r.email = k.email /\ r.password = k.password
-----------------------------------------------------------------------------
Begin(c, op, pc) ==
  /\ call[c].pc = "idle"
  /\ \E e \in Emails, p \in Passwords :
       call' = [call EXCEPT ![c] =
         [NoCall EXCEPT !.pc = pc, !.op = op, !.email = e, !.password = p,
                        !.known = \E r \in rows : Opens(Meant(e, p), r)]]
  /\ UNCHANGED <<Users, tokens>>

\* register has checked its input.
BeginRegister(c) == Begin(c, "register", "hash")

\* HashPassword refuses what is longer than bcrypt looks at.
Hash(c) == /\ call[c].pc = "hash"
           /\ IF First72[call[c].password] = call[c].password
                THEN Goes(c, "insert") ELSE Answers(c, 500)
           /\ UNCHANGED <<Users, tokens>>

\* Faulty variant of Stored: the address as it was typed.
StoredAsTyped(e) == e
\* The address that CreateUser stores.
Stored(e) == Normal[e]

\* UNIQUE (email), or the loop under the mutex.
Taken(e) == \E r \in rows : r.email = Stored(e)

\* Faulty variant of Insert: it relies on a check made before.
InsertUnchecked(c) ==
  /\ call[c].pc = "insert"
  /\ lastId < MaxId
  /\ lastId' = lastId + 1
  /\ rows' = rows \cup {[id |-> lastId + 1, email |-> Stored(call[c].email),
                        password |-> call[c].password]}
  /\ call' = [call EXCEPT ![c].pc = "issue", ![c].id = lastId + 1]
  /\ UNCHANGED <<backend, tokens, restarts>>
\* CreateUser inserts.
Insert(c) ==
  /\ call[c].pc = "insert"
  /\ lastId < MaxId
  /\ ~Taken(call[c].email)
  /\ lastId' = lastId + 1
  /\ rows' = rows \cup {[id |-> lastId + 1, email |-> Stored(call[c].email),
                        password |-> call[c].password]}
  /\ call' = [call EXCEPT ![c].pc = "issue", ![c].id = lastId + 1]
  /\ UNCHANGED <<backend, tokens, restarts>>

\* ErrEmailTaken: 409.  The sequence has moved on in Postgres.
InsertRefused(c) ==
  /\ call[c].pc = "insert"
  /\ Taken(call[c].email)
  /\ \/ backend = "memory" /\ UNCHANGED lastId
     \/ backend = "postgres" /\ lastId < MaxId /\ lastId' = lastId + 1
  /\ Answers(c, 409)
  /\ UNCHANGED <<backend, rows, tokens, restarts>>

\* Faulty variant of StatusOf: any error of the database is a taken address.
TakenWhatever(err) == 409
\* An error other than 23505 has no status of its own.
StatusOf(err) == IF err = "23505" THEN 409 ELSE 500

\* Postgres fails, before the statement or after it: the row may be there.
InsertFails(c) ==
  /\ backend = "postgres" /\ call[c].pc = "insert"
  /\ \/ UNCHANGED <<rows, lastId>>
     \/ /\ ~Taken(call[c].email) /\ lastId < MaxId
        /\ lastId' = lastId + 1
        /\ rows' = rows \cup {[id |-> lastId + 1, email |-> Stored(call[c].email),
                              password |-> call[c].password]}
  /\ Answers(c, StatusOf("connection"))
  /\ UNCHANGED <<backend, tokens, restarts>>
-----------------------------------------------------------------------------
BeginLogin(c) == Begin(c, "login", "find")

\* Faulty variant of Sought: the address as it was typed.
SoughtAsTyped(e) == e
\* The address GetUserByEmail looks for.
Sought(e) == Normal[e]

\* GetUserByEmail, and CheckPassword if there is such a user.
Find(c) ==
  /\ call[c].pc = "find"
  /\ \/ \E r \in rows : /\ r.email = Sought(call[c].email)
                        /\ call' = [call EXCEPT ![c].pc = "check", ![c].id = r.id]
     \/ /\ \A r \in rows : r.email # Sought(call[c].email)
        /\ Answers(c, 401)
  /\ UNCHANGED <<Users, tokens>>

\* CheckPassword, against the hash that Find has read.
Check(c) ==
  /\ call[c].pc = "check"
  /\ \E r \in rows : /\ r.id = call[c].id
                     /\ IF r.password = First72[call[c].password]
                          THEN Goes(c, "issue") ELSE Answers(c, 401)
  /\ UNCHANGED <<Users, tokens>>

\* Faulty variant of IssuedId: the newest account.
NewestId(c) == lastId
\* user.ID, as RETURNING id or the SELECT has set it.
IssuedId(c) == call[c].id

\* IssueToken, and the answer of register or login.
Issue(c) ==
  /\ call[c].pc = "issue"
  /\ LET k == Meant(call[c].email, call[c].password)
     IN  tokens' = tokens \cup {[id |-> IssuedId(c), email |-> k.email,
                                password |-> k.password, restart |-> restarts]}
  /\ Answers(c, IF call[c].op = "register" THEN 201 ELSE 200)
  /\ UNCHANGED Users
-----------------------------------------------------------------------------
\* /auth/me: RequireAuth finds a valid token, or none (401).
BeginMe(c) ==
  /\ call[c].pc = "idle"
  /\ \/ \E t \in tokens :
          call' = [call EXCEPT ![c] = [NoCall EXCEPT !.pc = "get", !.op = "me",
                     !.id = t.id, !.known = (t.restart = restarts)]]
     \/ call' = [call EXCEPT ![c] = [NoCall EXCEPT !.op = "me", !.status = 401]]
  /\ UNCHANGED <<Users, tokens>>

\* GetUserByID.
GetUserByID(c) ==
  /\ call[c].pc = "get"
  /\ Answers(c, IF \E r \in rows : r.id = call[c].id THEN 200 ELSE 404)
  /\ UNCHANGED <<Users, tokens>>

\* The database fails under a query, or the token cannot be signed.
StepFails(c) == /\ \/ call[c].pc \in {"find", "get"} /\ backend = "postgres"
                   \/ call[c].pc = "issue"
                /\ Answers(c, 500)
                /\ UNCHANGED <<Users, tokens>>

\* The replica dies, or the client does not wait for the answer.
CallDies(c) == /\ call[c].pc # "idle"
               /\ call' = [call EXCEPT ![c] = NoCall]
               /\ UNCHANGED <<Users, tokens>>

\* Faulty variant of Restart: the sequence is lost, and not the accounts.
RestartKeepsRows == /\ backend = "memory" /\ restarts < MaxRestarts
                    /\ lastId' = 0
                    /\ call' = [c \in Calls |-> NoCall]
                    /\ restarts' = restarts + 1
                    /\ UNCHANGED <<backend, rows, tokens>>
\* The process restarts: the map is lost, and with it every call.
Restart == /\ backend = "memory" /\ restarts < MaxRestarts
           /\ rows' = {}
           /\ lastId' = 0
           /\ call' = [c \in Calls |-> NoCall]
           /\ restarts' = restarts + 1
           /\ UNCHANGED <<backend, tokens>>

Next == \/ \E c \in Calls :
             \/ BeginRegister(c) \/ Hash(c) \/ Insert(c) \/ InsertRefused(c) \/ InsertFails(c)
             \/ BeginLogin(c) \/ Find(c) \/ Check(c) \/ Issue(c)
             \/ BeginMe(c) \/ GetUserByID(c) \/ StepFails(c) \/ CallDies(c)
        \/ Restart

Spec == Init /\ [][Next]_vars
-----------------------------------------------------------------------------
\* Accounts, tokens and calls have their types, and no id is ahead of its sequence.
TypeOK == /\ backend \in Backends
          /\ rows \subseteq Row /\ lastId \in 0..MaxId
          /\ call \in [Calls -> Call]
          /\ tokens \subseteq Token
          /\ restarts \in 0..MaxRestarts
          /\ \A r \in rows : r.id <= lastId

\* CreateUser's "database be the referee": however registrations of one address,
\* in whatever spelling, overlap and fail, there is one account of it, and one
\* account of an id.
OneAccount == \A r, s \in rows : r.email = s.email \/ r.id = s.id => r = s

\* login: nobody is refused with the credentials of an account that was there when
\* the login began, in any spelling of the address, and even if the registration
\* itself never got an answer.
RefusedRightly == \A c \in Calls :
                    call[c].op = "login" /\ call[c].status = 401 => ~call[c].known

\* register: who is told that the address is registered finds an account of it.
ConflictIsReal == \A c \in Calls :
                    call[c].status = 409 => \E r \in rows : r.email = Normal[call[c].email]

\* IssueToken and /auth/me: a token names the account of the credentials that were
\* presented for it, and so /auth/me finds that account.  Accounts lost in a restart
\* of the memory store are not promised anything.
TokenNamesOwner ==
  /\ \A t \in tokens : t.restart = restarts =>
       \E r \in rows : r.id = t.id /\ Opens(t, r)
  /\ \A c \in Calls : call[c].op = "me" /\ call[c].known => call[c].status # 404
=============================================================================
