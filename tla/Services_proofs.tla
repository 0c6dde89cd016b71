------------------------------ MODULE Services_proofs ------------------------------
(* What Accounts, KnowledgeGraph, Embeddings and EventStream promise, proved for   *)
(* any number of requests, processes and calls, and any number of failures.        *)
(*                                                                                 *)
(* AccountsInv is inductive.  Its core is AddressesAreHeldOnce, which speaks of    *)
(* the accounts that are committed and of those that are inserted but not yet      *)
(* committed: a commit then moves an address from one group to the other, and      *)
(* only InsertUser, where the index acts, has to see to uniqueness.                *)
(*                                                                                 *)
(* For a graph, first the operations of its store: each keeps the indexes exact,   *)
(* and what it does to the nodes and edges is said by one equation.  Then the      *)
(* projection of a paper: its edges fit the schema and run between its nodes.      *)
(* KnowledgeInv puts the two together: it says how far each build has come, as     *)
(* what is in the store plus what the build has still to write.  A search of the   *)
(* graph is a run of rounds, and a round finds what is one edge further away.      *)
(*                                                                                 *)
(* EmbeddingsInv says which task the payload of an instance names at each stage    *)
(* of the call that uses it, and under which task its texts were sent.             *)
(*                                                                                 *)
(* StreamInv says of a run that what is in the buffer and on the wire are the      *)
(* frames behind the first d, in their order and cut anywhere, and that the        *)
(* console shows those d; a read moves d on by the frames it completes.            *)
EXTENDS Accounts, KnowledgeGraph, Embeddings, EventStream, Recursion_proofs

---------------------------------------------------------------------------------
(* Accounts.                                                                     *)

(* The requests whose row of users is inserted and not committed.                *)
Inserted == {r \in Request : at[r] = "commit"}

(* The rows of users that the unique index compares.                             *)
Holders == users \cup Inserted

AddressesAreHeldOnce == \A u, v \in Holders : email[u] = email[v] => u = v

(* Where a request is fits the endpoint it called and what it has looked up.     *)
InOrder(r) ==
    /\ at[r] = "new" <=> kind[r] = None
    /\ at[r] = "check" => kind[r] \in {"register", "login"}
    /\ at[r] \in {"insert", "commit"} => kind[r] = "register"
    /\ at[r] \in {"auth", "touch", "load", "run"} =>
          kind[r] \in {"create_key", "delete_key", "me"}
    /\ at[r] = "refresh" => kind[r] \in {"register", "create_key"}
    /\ kind[r] \in {"register", "login"} => arg[r] \in Address
    /\ kind[r] = "delete_key" => arg[r] \in keys
    /\ at[r] = "auth" /\ token[r] = <<>> => key[r] # None
    /\ at[r] \in {"touch", "load"} => key[r] \in keys
    /\ at[r] # "done" => reply[r] = 0

RequestsAreInOrder == \A r \in Request : InOrder(r)

(* What a registration has written, and what it was told.                        *)
Answered(r) ==
    /\ r \in Holders => kind[r] = "register" /\ email[r] = arg[r]
    /\ at[r] \in {"new", "check", "insert", "commit"} => r \notin users
    /\ kind[r] = "register" =>
          /\ at[r] = "refresh" \/ reply[r] = 201 => r \in users
          /\ at[r] = "done" /\ faults = 0 /\ reply[r] # 201 =>
                r \notin users /\ Registered(arg[r]) # {}

RegistrationsAreAnswered == \A r \in Request : Answered(r)

(* The account that was there before the first request.                          *)
OldAccountStays == OldUser \in users /\ email[OldUser] = OldAddress

(* A key belongs to an account, and so does every token and every caller.        *)
CallersExist ==
    /\ \A k \in keys : owner[k] \in users
    /\ \A t \in tokens : t[1] \in users
    /\ \A r \in Request : at[r] = "run" => caller[r] \in users

(* What was revoked when a request arrived is revoked still.                     *)
RevocationsAreKept ==
    /\ Dead \subseteq revoked
    /\ \A r \in Request : dead[r] \subseteq revoked

AccountsInv ==
    /\ AccountsTypeOK
    /\ AddressesAreHeldOnce
    /\ RequestsAreInOrder
    /\ RegistrationsAreAnswered
    /\ OldAccountStays
    /\ AccountsHaveWorkspace
    /\ CallersExist
    /\ RevocationsAreKept
    /\ RevocationIsFinal


-------------------------------------------------------------------------------
(* The status of a request, and how far it has come.                             *)
Status == {0, 200, 201, 204, 401, 404, 409, 500}

LEMMA GotoTyped ==
    ASSUME AccountsTypeOK, NEW r \in Request, NEW step \in RequestStep, Goto(r, step)
    PROVE  at' \in [Request -> RequestStep]
BY DEF AccountsTypeOK, Goto

LEMMA ReplyTyped ==
    ASSUME AccountsTypeOK, NEW r \in Request, NEW status \in Status, Reply(r, status)
    PROVE  at' \in [Request -> RequestStep] /\ reply' \in [Request -> Status]
<1>1. "done" \in RequestStep /\ Goto(r, "done")
  BY DEF RequestStep, Reply
<1>2. at' \in [Request -> RequestStep]
  BY <1>1, GotoTyped
<1>3. reply' \in [Request -> Status]
  BY DEF AccountsTypeOK, Reply, Status
<1>4. QED
  BY <1>2, <1>3

(* Every step keeps the types: LoadUser reads the owner of a key there is.       *)
LEMMA TypeStep ==
    ASSUME AccountsTypeOK, RequestsAreInOrder, [AccountsNext]_accountVars
    PROVE  AccountsTypeOK'
<1>a. {"insert", "commit", "touch"} \subseteq RequestStep
      /\ {0, 200, 201, 204, 401, 404, 409, 500} \subseteq Status /\ reply \in [Request -> Status]
  BY DEF RequestStep, Status, AccountsTypeOK
<1>b. ASSUME NEW r \in Request, CheckAddress(r)
      PROVE  at' \in [Request -> RequestStep] /\ reply' \in [Request -> Status]
  BY <1>a, <1>b, GotoTyped, ReplyTyped DEF CheckAddress
<1>c. ASSUME NEW r \in Request, InsertUser(r)
      PROVE  at' \in [Request -> RequestStep] /\ reply' \in [Request -> Status]
  BY <1>a, <1>c, GotoTyped, ReplyTyped DEF InsertUser
<1>d. ASSUME NEW r \in Request, RevokeKey(r)
      PROVE  at' \in [Request -> RequestStep] /\ reply' \in [Request -> Status]
  BY <1>a, <1>d, ReplyTyped DEF RevokeKey
<1>e. ASSUME NEW r \in Request, ByKey(r)
      PROVE  at' \in [Request -> RequestStep] /\ reply' \in [Request -> Status]
  BY <1>a, <1>e, GotoTyped, ReplyTyped DEF ByKey
<1> USE AccountsAssumption DEF AccountsTypeOK, dbVars, reqVars, User, Key, Kind, RequestStep, Status
<1>1. ASSUME NEW r \in Request,
             NEW k \in {"register", "login"}, NEW a \in Address,
             Anonymous(r, k, a)
      PROVE  AccountsTypeOK'
  <2>1. Dead \subseteq Key
    BY DEF Dead, RequestsAreInOrder, InOrder
  <2>2. QED
    BY <1>1, <2>1 DEF Anonymous, Goto
<1>2. ASSUME NEW r \in Request,
             NEW k \in Kind, NEW t \in tokens \cup {<<>>}, NEW x \in keys \cup {None},
             NEW target \in keys \cup {None},
             Authenticated(r, k, t, x, target)
      PROVE  AccountsTypeOK'
  <2>1. Dead \subseteq Key
    BY DEF Dead, RequestsAreInOrder, InOrder
  <2>2. QED
    BY <1>2, <2>1 DEF Authenticated, Goto
<1>3. ASSUME NEW r \in Request, CheckAddress(r)
      PROVE  AccountsTypeOK'
  <2>1. /\ UNCHANGED <<users, workspaces, email, keys, revoked, owner>>
        /\ UNCHANGED <<kind, arg, token, key, seen, caller, now, faults, dead>>
    BY <1>3 DEF CheckAddress
  <2>2. tokens \subseteq tokens' /\ tokens' \subseteq User \X (0 .. MaxTime + Lifetime)
    <3>1. \/ tokens' = tokens
          \/ \E u \in Registered(arg[r]) : tokens' = tokens \cup {<<u, now + Lifetime>>}
      BY <1>3, Zenon DEF CheckAddress
    <3>2. Registered(arg[r]) \subseteq User /\ now + Lifetime \in 0 .. MaxTime + Lifetime
      BY DEF Registered
    <3>3. QED
      BY <3>1, <3>2
  <2>3. QED
    BY <1>b, <1>3, <2>1, <2>2
<1>4. ASSUME NEW r \in Request, InsertUser(r)
      PROVE  AccountsTypeOK'
  <2>1. /\ UNCHANGED <<users, workspaces, keys, revoked, owner, tokens>>
        /\ UNCHANGED <<kind, arg, token, key, seen, caller, now, faults, dead>>
    BY <1>4 DEF InsertUser
  <2>2. email' \in [User -> Address \cup {None}]
    <3>1. email' = email \/ email' = [email EXCEPT ![r] = arg[r]]
      BY <1>4, Zenon DEF InsertUser
    <3>2. arg[r] \in Address
      BY <1>4 DEF InsertUser, RequestsAreInOrder, InOrder
    <3>3. QED
      BY <3>1, <3>2
  <2>3. QED
    BY <1>c, <1>4, <2>1, <2>2
<1>5. ASSUME NEW r \in Request, CommitUser(r)
      PROVE  AccountsTypeOK'
  BY <1>5 DEF CommitUser, Goto
<1>6. ASSUME NEW r \in Request, Refresh(r)
      PROVE  AccountsTypeOK'
  BY <1>6 DEF Refresh, Goto, Reply
<1>7. ASSUME NEW r \in Request, ByToken(r)
      PROVE  AccountsTypeOK'
  BY <1>7 DEF ByToken, Goto, Reply
<1>8. ASSUME NEW r \in Request, ByKey(r)
      PROVE  AccountsTypeOK'
  <2>1. CASE key[r] \notin keys \/ key[r] \in revoked
    <3>1. UNCHANGED <<dbVars, tokens, kind, arg, token, key, seen, caller, now, faults, dead>>
      BY <1>8, <2>1, Zenon DEF ByKey
    <3>2. QED
      BY <1>e, <1>8, <3>1
  <2>2. CASE ~(key[r] \notin keys \/ key[r] \in revoked)
    <3>1. seen' = [seen EXCEPT ![r] = TRUE]
      BY <1>8, <2>2, Zenon DEF ByKey
    <3>2. seen' \in [Request -> BOOLEAN]
      BY <3>1, Zenon
    <3>3. QED
      BY <1>8, <2>2, <3>2 DEF ByKey, Goto
  <2>3. QED
    BY <2>1, <2>2
<1>9. ASSUME NEW r \in Request, Touch(r)
      PROVE  AccountsTypeOK'
  BY <1>9 DEF Touch, Goto
<1>10. ASSUME NEW r \in Request, LoadUser(r)
      PROVE  AccountsTypeOK'
  BY <1>10 DEF LoadUser, Goto, RequestsAreInOrder, InOrder
<1>11. ASSUME NEW r \in Request, ReadMe(r)
      PROVE  AccountsTypeOK'
  BY <1>11 DEF ReadMe, Goto, Reply
<1>12. ASSUME NEW r \in Request, CreateKey(r)
      PROVE  AccountsTypeOK'
  BY <1>12 DEF CreateKey, Goto
<1>13. ASSUME NEW r \in Request, RevokeKey(r)
      PROVE  AccountsTypeOK'
  <2>1. /\ UNCHANGED <<users, email, workspaces, keys, owner, tokens>>
        /\ UNCHANGED <<kind, arg, token, key, seen, caller, now, faults, dead>>
    BY <1>13 DEF RevokeKey
  <2>2. revoked' \subseteq Key
    BY <1>13 DEF RevokeKey
  <2>3. QED
    BY <1>d, <1>13, <2>1, <2>2
<1>14. ASSUME NEW r \in Request, RequestFails(r)
      PROVE  AccountsTypeOK'
  BY <1>14 DEF RequestFails, Goto, Reply
<1>15. CASE Tick
  BY <1>15 DEF Tick
<1>16. CASE UNCHANGED accountVars
  BY <1>16 DEF accountVars
<1> HIDE DEF AccountsTypeOK, dbVars, reqVars, User, Key, Kind, RequestStep
<1>17. QED
  BY <1>1, <1>2, <1>3, <1>4, <1>5, <1>6, <1>7, <1>8, <1>9, <1>10, <1>11,
     <1>12, <1>13, <1>14, <1>15, <1>16 DEF AccountsNext

(* Every step keeps a request on its way through its endpoint.                   *)
LEMMA OrderStep ==
    ASSUME AccountsTypeOK, RequestsAreInOrder, [AccountsNext]_accountVars
    PROVE  RequestsAreInOrder'
<1> USE AccountsAssumption DEF AccountsTypeOK, RequestsAreInOrder, InOrder, dbVars, reqVars,
        RequestStep, Kind
<1>1. ASSUME NEW r \in Request,
             NEW k \in {"register", "login"}, NEW a \in Address,
             Anonymous(r, k, a)
      PROVE  RequestsAreInOrder'
  <2>1. ASSUME NEW o \in Request
        PROVE  InOrder(o)'
    <3>1. CASE o = r
      BY <1>1, <3>1 DEF Anonymous, Goto, Kind
    <3>2. CASE o # r
      BY <1>1, <3>2 DEF Anonymous, Goto
    <3>3. QED
      BY <3>1, <3>2
  <2>2. QED
    BY <2>1
<1>2. ASSUME NEW r \in Request,
             NEW k \in Kind, NEW t \in tokens \cup {<<>>}, NEW x \in keys \cup {None},
             NEW target \in keys \cup {None},
             Authenticated(r, k, t, x, target)
      PROVE  RequestsAreInOrder'
  <2>1. ASSUME NEW o \in Request
        PROVE  InOrder(o)'
    <3>1. CASE o = r
      BY <1>2, <3>1 DEF Authenticated, Goto, Kind
    <3>2. CASE o # r
      BY <1>2, <3>2 DEF Authenticated, Goto
    <3>3. QED
      BY <3>1, <3>2
  <2>2. QED
    BY <2>1
<1>3. ASSUME NEW r \in Request, CheckAddress(r)
      PROVE  RequestsAreInOrder'
  BY <1>3 DEF CheckAddress, Goto, Reply
<1>4. ASSUME NEW r \in Request, InsertUser(r)
      PROVE  RequestsAreInOrder'
  BY <1>4 DEF InsertUser, Goto, Reply
<1>5. ASSUME NEW r \in Request, CommitUser(r)
      PROVE  RequestsAreInOrder'
  BY <1>5 DEF CommitUser, Goto
<1>6. ASSUME NEW r \in Request, Refresh(r)
      PROVE  RequestsAreInOrder'
  BY <1>6 DEF Refresh, Goto, Reply
<1>7. ASSUME NEW r \in Request, ByToken(r)
      PROVE  RequestsAreInOrder'
  BY <1>7 DEF ByToken, Goto, Reply
<1>8. ASSUME NEW r \in Request, ByKey(r)
      PROVE  RequestsAreInOrder'
  BY <1>8 DEF ByKey, Goto, Reply
<1>9. ASSUME NEW r \in Request, Touch(r)
      PROVE  RequestsAreInOrder'
  BY <1>9 DEF Touch, Goto
<1>10. ASSUME NEW r \in Request, LoadUser(r)
      PROVE  RequestsAreInOrder'
  BY <1>10 DEF LoadUser, Goto
<1>11. ASSUME NEW r \in Request, ReadMe(r)
      PROVE  RequestsAreInOrder'
  BY <1>11 DEF ReadMe, Goto, Reply
<1>12. ASSUME NEW r \in Request, CreateKey(r)
      PROVE  RequestsAreInOrder'
  BY <1>12 DEF CreateKey, Goto
<1>13. ASSUME NEW r \in Request, RevokeKey(r)
      PROVE  RequestsAreInOrder'
  BY <1>13 DEF RevokeKey, Goto, Reply
<1>14. ASSUME NEW r \in Request, RequestFails(r)
      PROVE  RequestsAreInOrder'
  BY <1>14 DEF RequestFails, Goto, Reply
<1>15. CASE Tick
  BY <1>15 DEF Tick
<1>16. CASE UNCHANGED accountVars
  BY <1>16 DEF accountVars
<1> HIDE DEF AccountsTypeOK, RequestsAreInOrder, InOrder, dbVars, reqVars, RequestStep, Kind
<1>17. QED
  BY <1>1, <1>2, <1>3, <1>4, <1>5, <1>6, <1>7, <1>8, <1>9, <1>10, <1>11,
     <1>12, <1>13, <1>14, <1>15, <1>16 DEF AccountsNext

(* Accounts and keys are only added, so an answer given to a registration stays   *)
(* true: what it wrote is there, or the address was somebody else's already.     *)
LEMMA AnsweredStep ==
    ASSUME AccountsTypeOK, RequestsAreInOrder, RegistrationsAreAnswered,
           [AccountsNext]_accountVars
    PROVE  RegistrationsAreAnswered'
<1> USE AccountsAssumption DEF AccountsTypeOK, RequestsAreInOrder, RegistrationsAreAnswered, InOrder,
        Answered, Holders, Inserted, Registered, dbVars, reqVars, RequestStep, Kind
<1>1. ASSUME NEW r \in Request,
             NEW k \in {"register", "login"}, NEW a \in Address,
             Anonymous(r, k, a)
      PROVE  RegistrationsAreAnswered'
  <2>1. ASSUME NEW o \in Request
        PROVE  Answered(o)'
    <3>1. CASE o = r
      BY <1>1, <3>1 DEF Anonymous, Goto
    <3>2. CASE o # r
      BY <1>1, <3>2 DEF Anonymous, Goto
    <3>3. QED
      BY <3>1, <3>2
  <2>2. QED
    BY <2>1
<1>2. ASSUME NEW r \in Request,
             NEW k \in Kind, NEW t \in tokens \cup {<<>>}, NEW x \in keys \cup {None},
             NEW target \in keys \cup {None},
             Authenticated(r, k, t, x, target)
      PROVE  RegistrationsAreAnswered'
  BY <1>2 DEF Authenticated, Goto
<1>3. ASSUME NEW r \in Request, CheckAddress(r)
      PROVE  RegistrationsAreAnswered'
  BY <1>3 DEF CheckAddress, Goto, Reply
<1>4. ASSUME NEW r \in Request, InsertUser(r)
      PROVE  RegistrationsAreAnswered'
  <2>1. CASE Registered(arg[r]) # {}
    BY <1>4, <2>1 DEF InsertUser, Goto, Reply
  <2>2. CASE Registered(arg[r]) = {}
    <3>1. ASSUME NEW u \in users
          PROVE  u # r /\ email'[u] = email[u]
      BY <1>4, <2>2 DEF InsertUser, Goto
    <3>2. ASSUME NEW o \in Request, o # r
          PROVE  Answered(o)'
      BY <1>4, <2>2, <3>1, <3>2 DEF InsertUser, Goto, User
    <3>3. Answered(r)'
      BY <1>4, <2>2 DEF InsertUser, Goto, User
    <3>4. QED
      BY <3>2, <3>3
  <2>3. QED
    BY <2>1, <2>2
<1>5. ASSUME NEW r \in Request, CommitUser(r)
      PROVE  RegistrationsAreAnswered'
  BY <1>5 DEF CommitUser, Goto
<1>6. ASSUME NEW r \in Request, Refresh(r)
      PROVE  RegistrationsAreAnswered'
  BY <1>6 DEF Refresh, Goto, Reply
<1>7. ASSUME NEW r \in Request, ByToken(r)
      PROVE  RegistrationsAreAnswered'
  BY <1>7 DEF ByToken, Goto, Reply
<1>8. ASSUME NEW r \in Request, ByKey(r)
      PROVE  RegistrationsAreAnswered'
  BY <1>8 DEF ByKey, Goto, Reply
<1>9. ASSUME NEW r \in Request, Touch(r)
      PROVE  RegistrationsAreAnswered'
  BY <1>9 DEF Touch, Goto
<1>10. ASSUME NEW r \in Request, LoadUser(r)
      PROVE  RegistrationsAreAnswered'
  BY <1>10 DEF LoadUser, Goto
<1>11. ASSUME NEW r \in Request, ReadMe(r)
      PROVE  RegistrationsAreAnswered'
  BY <1>11 DEF ReadMe, Goto, Reply
<1>12. ASSUME NEW r \in Request, CreateKey(r)
      PROVE  RegistrationsAreAnswered'
  BY <1>12 DEF CreateKey, Goto
<1>13. ASSUME NEW r \in Request, RevokeKey(r)
      PROVE  RegistrationsAreAnswered'
  BY <1>13 DEF RevokeKey, Goto, Reply
<1>14. ASSUME NEW r \in Request, RequestFails(r)
      PROVE  RegistrationsAreAnswered'
  BY <1>14 DEF RequestFails, Goto, Reply
<1>15. CASE Tick
  BY <1>15 DEF Tick
<1>16. CASE UNCHANGED accountVars
  BY <1>16 DEF accountVars
<1> HIDE DEF AccountsTypeOK, RequestsAreInOrder, RegistrationsAreAnswered, InOrder,
        Answered, Holders, Inserted, Registered, dbVars, reqVars, RequestStep, Kind
<1>17. QED
  BY <1>1, <1>2, <1>3, <1>4, <1>5, <1>6, <1>7, <1>8, <1>9, <1>10, <1>11,
     <1>12, <1>13, <1>14, <1>15, <1>16 DEF AccountsNext

(* Only InsertUser adds a row to those the index compares, and it waits for an   *)
(* inserted row of the address and refuses a committed one.                      *)
LEMMA HeldOnceStep ==
    ASSUME AccountsTypeOK, RequestsAreInOrder, RegistrationsAreAnswered,
           AddressesAreHeldOnce, [AccountsNext]_accountVars
    PROVE  AddressesAreHeldOnce'
<1> USE AccountsAssumption DEF AccountsTypeOK, AddressesAreHeldOnce, Holders, Inserted, dbVars, reqVars
<1>1. ASSUME NEW r \in Request,
             NEW k \in {"register", "login"}, NEW a \in Address,
             Anonymous(r, k, a)
      PROVE  AddressesAreHeldOnce'
  BY <1>1 DEF Anonymous, Goto
<1>2. ASSUME NEW r \in Request,
             NEW k \in Kind, NEW t \in tokens \cup {<<>>}, NEW x \in keys \cup {None},
             NEW target \in keys \cup {None},
             Authenticated(r, k, t, x, target)
      PROVE  AddressesAreHeldOnce'
  BY <1>2 DEF Authenticated, Goto
<1>3. ASSUME NEW r \in Request, CheckAddress(r)
      PROVE  AddressesAreHeldOnce'
  BY <1>3 DEF CheckAddress, Goto, Reply
<1>4. ASSUME NEW r \in Request, InsertUser(r)
      PROVE  AddressesAreHeldOnce'
  <2>1. CASE Registered(arg[r]) # {}
    BY <1>4, <2>1 DEF InsertUser, Goto, Reply
  <2>2. CASE Registered(arg[r]) = {}
    <3>1. Holders' = Holders \cup {r} /\ r \notin Holders
      BY <1>4, <2>2 DEF InsertUser, Goto, RegistrationsAreAnswered, Answered
    <3>2. ASSUME NEW u \in Holders
          PROVE  email'[u] = email[u] /\ email[u] # arg[r]
      BY <1>4, <2>2, <3>1 DEF InsertUser, Goto, Registered, User
    <3>3. email'[r] = arg[r]
      BY <1>4, <2>2 DEF InsertUser, User
    <3>4. QED
      BY <3>1, <3>2, <3>3
  <2>3. QED
    BY <2>1, <2>2
<1>5. ASSUME NEW r \in Request, CommitUser(r)
      PROVE  AddressesAreHeldOnce'
  BY <1>5 DEF CommitUser, Goto
<1>6. ASSUME NEW r \in Request, Refresh(r)
      PROVE  AddressesAreHeldOnce'
  BY <1>6 DEF Refresh, Goto, Reply
<1>7. ASSUME NEW r \in Request, ByToken(r)
      PROVE  AddressesAreHeldOnce'
  BY <1>7 DEF ByToken, Goto, Reply
<1>8. ASSUME NEW r \in Request, ByKey(r)
      PROVE  AddressesAreHeldOnce'
  BY <1>8 DEF ByKey, Goto, Reply
<1>9. ASSUME NEW r \in Request, Touch(r)
      PROVE  AddressesAreHeldOnce'
  BY <1>9 DEF Touch, Goto
<1>10. ASSUME NEW r \in Request, LoadUser(r)
      PROVE  AddressesAreHeldOnce'
  BY <1>10 DEF LoadUser, Goto
<1>11. ASSUME NEW r \in Request, ReadMe(r)
      PROVE  AddressesAreHeldOnce'
  BY <1>11 DEF ReadMe, Goto, Reply
<1>12. ASSUME NEW r \in Request, CreateKey(r)
      PROVE  AddressesAreHeldOnce'
  BY <1>12 DEF CreateKey, Goto
<1>13. ASSUME NEW r \in Request, RevokeKey(r)
      PROVE  AddressesAreHeldOnce'
  BY <1>13 DEF RevokeKey, Goto, Reply
<1>14. ASSUME NEW r \in Request, RequestFails(r)
      PROVE  AddressesAreHeldOnce'
  BY <1>14 DEF RequestFails, Goto, Reply, RegistrationsAreAnswered, Answered
<1>15. CASE Tick
  BY <1>15 DEF Tick
<1>16. CASE UNCHANGED accountVars
  BY <1>16 DEF accountVars
<1> HIDE DEF AccountsTypeOK, AddressesAreHeldOnce, Holders, Inserted, dbVars, reqVars
<1>17. QED
  BY <1>1, <1>2, <1>3, <1>4, <1>5, <1>6, <1>7, <1>8, <1>9, <1>10, <1>11,
     <1>12, <1>13, <1>14, <1>15, <1>16 DEF AccountsNext

(* No account goes, and none is let in or named as an owner before it is there.  *)
LEMMA CallersStep ==
    ASSUME AccountsTypeOK, RequestsAreInOrder, RegistrationsAreAnswered, OldAccountStays,
           AccountsHaveWorkspace, CallersExist, [AccountsNext]_accountVars
    PROVE  OldAccountStays' /\ AccountsHaveWorkspace' /\ CallersExist'
<1> USE AccountsAssumption DEF AccountsTypeOK, OldAccountStays, AccountsHaveWorkspace,
        CallersExist, dbVars, reqVars, User, Key
<1>1. ASSUME NEW r \in Request,
             NEW k \in {"register", "login"}, NEW a \in Address,
             Anonymous(r, k, a)
      PROVE  OldAccountStays' /\ AccountsHaveWorkspace' /\ CallersExist'
  BY <1>1 DEF Anonymous, Goto
<1>2. ASSUME NEW r \in Request,
             NEW k \in Kind, NEW t \in tokens \cup {<<>>}, NEW x \in keys \cup {None},
             NEW target \in keys \cup {None},
             Authenticated(r, k, t, x, target)
      PROVE  OldAccountStays' /\ AccountsHaveWorkspace' /\ CallersExist'
  BY <1>2 DEF Authenticated, Goto
<1>3. ASSUME NEW r \in Request, CheckAddress(r)
      PROVE  OldAccountStays' /\ AccountsHaveWorkspace' /\ CallersExist'
  BY <1>3 DEF CheckAddress, Goto, Reply, Registered
<1>4. ASSUME NEW r \in Request, InsertUser(r)
      PROVE  OldAccountStays' /\ AccountsHaveWorkspace' /\ CallersExist'
  BY <1>4 DEF InsertUser, Goto, Reply
<1>5. ASSUME NEW r \in Request, CommitUser(r)
      PROVE  OldAccountStays' /\ AccountsHaveWorkspace' /\ CallersExist'
  BY <1>5 DEF CommitUser, Goto
<1>6. ASSUME NEW r \in Request, Refresh(r)
      PROVE  OldAccountStays' /\ AccountsHaveWorkspace' /\ CallersExist'
  BY <1>6 DEF Refresh, Goto, Reply
<1>7. ASSUME NEW r \in Request, ByToken(r)
      PROVE  OldAccountStays' /\ AccountsHaveWorkspace' /\ CallersExist'
  BY <1>7 DEF ByToken, Goto, Reply
<1>8. ASSUME NEW r \in Request, ByKey(r)
      PROVE  OldAccountStays' /\ AccountsHaveWorkspace' /\ CallersExist'
  BY <1>8 DEF ByKey, Goto, Reply
<1>9. ASSUME NEW r \in Request, Touch(r)
      PROVE  OldAccountStays' /\ AccountsHaveWorkspace' /\ CallersExist'
  BY <1>9 DEF Touch, Goto
<1>10. ASSUME NEW r \in Request, LoadUser(r)
      PROVE  OldAccountStays' /\ AccountsHaveWorkspace' /\ CallersExist'
  BY <1>10 DEF LoadUser, Goto, RequestsAreInOrder, InOrder
<1>11. ASSUME NEW r \in Request, ReadMe(r)
      PROVE  OldAccountStays' /\ AccountsHaveWorkspace' /\ CallersExist'
  BY <1>11 DEF ReadMe, Goto, Reply
<1>12. ASSUME NEW r \in Request, CreateKey(r)
      PROVE  OldAccountStays' /\ AccountsHaveWorkspace' /\ CallersExist'
  BY <1>12 DEF CreateKey, Goto
<1>13. ASSUME NEW r \in Request, RevokeKey(r)
      PROVE  OldAccountStays' /\ AccountsHaveWorkspace' /\ CallersExist'
  BY <1>13 DEF RevokeKey, Goto, Reply
<1>14. ASSUME NEW r \in Request, RequestFails(r)
      PROVE  OldAccountStays' /\ AccountsHaveWorkspace' /\ CallersExist'
  BY <1>14 DEF RequestFails, Goto, Reply
<1>15. CASE Tick
  BY <1>15 DEF Tick
<1>16. CASE UNCHANGED accountVars
  BY <1>16 DEF accountVars
<1> HIDE DEF AccountsTypeOK, OldAccountStays, AccountsHaveWorkspace,
        CallersExist, dbVars, reqVars, User, Key
<1>17. QED
  BY <1>1, <1>2, <1>3, <1>4, <1>5, <1>6, <1>7, <1>8, <1>9, <1>10, <1>11,
     <1>12, <1>13, <1>14, <1>15, <1>16 DEF AccountsNext

(* A revocation that was acknowledged is in the table, and nothing undoes it.    *)
LEMMA RevokedStep ==
    ASSUME AccountsTypeOK, RequestsAreInOrder, RevocationsAreKept, RevocationIsFinal,
           [AccountsNext]_accountVars
    PROVE  RevocationsAreKept' /\ RevocationIsFinal'
<1> USE AccountsAssumption DEF AccountsTypeOK, RevocationsAreKept, RevocationIsFinal, Dead,
        dbVars, reqVars
<1>1. ASSUME NEW r \in Request,
             NEW k \in {"register", "login"}, NEW a \in Address,
             Anonymous(r, k, a)
      PROVE  RevocationsAreKept' /\ RevocationIsFinal'
  <2>1. Dead' = Dead
    BY <1>1 DEF Anonymous, Goto, RequestsAreInOrder, InOrder
  <2> HIDE DEF Dead
  <2>2. RevocationsAreKept'
    <3>1. revoked' = revoked /\ dead' = [dead EXCEPT ![r] = Dead]
      BY <1>1 DEF Anonymous
    <3>2. QED
      BY <2>1, <3>1
  <2>3. RevocationIsFinal'
    BY <1>1 DEF Anonymous, Goto
  <2>4. QED
    BY <2>2, <2>3
<1>2. ASSUME NEW r \in Request,
             NEW k \in Kind, NEW t \in tokens \cup {<<>>}, NEW x \in keys \cup {None},
             NEW target \in keys \cup {None},
             Authenticated(r, k, t, x, target)
      PROVE  RevocationsAreKept' /\ RevocationIsFinal'
  <2>1. Dead' = Dead
    BY <1>2 DEF Authenticated, Goto, RequestsAreInOrder, InOrder
  <2> HIDE DEF Dead
  <2>2. RevocationsAreKept'
    <3>1. revoked' = revoked /\ dead' = [dead EXCEPT ![r] = Dead]
      BY <1>2 DEF Authenticated
    <3>2. QED
      BY <2>1, <3>1
  <2>3. RevocationIsFinal'
    BY <1>2 DEF Authenticated, Goto
  <2>4. QED
    BY <2>2, <2>3
<1>3. ASSUME NEW r \in Request, CheckAddress(r)
      PROVE  RevocationsAreKept' /\ RevocationIsFinal'
  BY <1>3 DEF CheckAddress, Goto, Reply
<1>4. ASSUME NEW r \in Request, InsertUser(r)
      PROVE  RevocationsAreKept' /\ RevocationIsFinal'
  BY <1>4 DEF InsertUser, Goto, Reply
<1>5. ASSUME NEW r \in Request, CommitUser(r)
      PROVE  RevocationsAreKept' /\ RevocationIsFinal'
  BY <1>5 DEF CommitUser, Goto
<1>6. ASSUME NEW r \in Request, Refresh(r)
      PROVE  RevocationsAreKept' /\ RevocationIsFinal'
  BY <1>6 DEF Refresh, Goto, Reply
<1>7. ASSUME NEW r \in Request, ByToken(r)
      PROVE  RevocationsAreKept' /\ RevocationIsFinal'
  BY <1>7 DEF ByToken, Goto, Reply
<1>8. ASSUME NEW r \in Request, ByKey(r)
      PROVE  RevocationsAreKept' /\ RevocationIsFinal'
  BY <1>8 DEF ByKey, Goto, Reply
<1>9. ASSUME NEW r \in Request, Touch(r)
      PROVE  RevocationsAreKept' /\ RevocationIsFinal'
  BY <1>9 DEF Touch, Goto
<1>10. ASSUME NEW r \in Request, LoadUser(r)
      PROVE  RevocationsAreKept' /\ RevocationIsFinal'
  BY <1>10 DEF LoadUser, Goto
<1>11. ASSUME NEW r \in Request, ReadMe(r)
      PROVE  RevocationsAreKept' /\ RevocationIsFinal'
  BY <1>11 DEF ReadMe, Goto, Reply
<1>12. ASSUME NEW r \in Request, CreateKey(r)
      PROVE  RevocationsAreKept' /\ RevocationIsFinal'
  BY <1>12 DEF CreateKey, Goto
<1>13. ASSUME NEW r \in Request, RevokeKey(r)
      PROVE  RevocationsAreKept' /\ RevocationIsFinal'
  BY <1>13 DEF RevokeKey, Goto, Reply, RequestsAreInOrder, InOrder
<1>14. ASSUME NEW r \in Request, RequestFails(r)
      PROVE  RevocationsAreKept' /\ RevocationIsFinal'
  BY <1>14 DEF RequestFails, Goto, Reply
<1>15. CASE Tick
  BY <1>15 DEF Tick
<1>16. CASE UNCHANGED accountVars
  BY <1>16 DEF accountVars
<1> HIDE DEF AccountsTypeOK, RevocationsAreKept, RevocationIsFinal, Dead,
        dbVars, reqVars
<1>17. QED
  BY <1>1, <1>2, <1>3, <1>4, <1>5, <1>6, <1>7, <1>8, <1>9, <1>10, <1>11,
     <1>12, <1>13, <1>14, <1>15, <1>16 DEF AccountsNext

-------------------------------------------------------------------------------
LEMMA AccountsInvHolds == AccountsSpec => []AccountsInv
<1>1. AccountsInit => AccountsInv
  <2>1. AccountsInit => AccountsTypeOK
    BY AccountsAssumption DEF AccountsInit, AccountsTypeOK, User, Key, RequestStep
  <2>2. AccountsInit => AddressesAreHeldOnce
    BY DEF AccountsInit, AddressesAreHeldOnce, Holders, Inserted
  <2>3. AccountsInit => RequestsAreInOrder
    BY AccountsAssumption DEF AccountsInit, RequestsAreInOrder, InOrder, Kind
  <2>4. AccountsInit => RegistrationsAreAnswered
    BY AccountsAssumption DEF AccountsInit, RegistrationsAreAnswered, Answered, Holders, Inserted, Kind
  <2>5. AccountsInit => OldAccountStays /\ AccountsHaveWorkspace /\ CallersExist
    BY DEF AccountsInit, OldAccountStays, AccountsHaveWorkspace, CallersExist, User, Key
  <2>6. AccountsInit => RevocationsAreKept /\ RevocationIsFinal
    BY DEF AccountsInit, RevocationsAreKept, RevocationIsFinal, Dead
  <2>7. QED
    BY <2>1, <2>2, <2>3, <2>4, <2>5, <2>6 DEF AccountsInv
<1>2. AccountsInv /\ [AccountsNext]_accountVars => AccountsInv'
  BY TypeStep, OrderStep, AnsweredStep, HeldOnceStep, CallersStep, RevokedStep DEF AccountsInv
<1>3. QED
  BY <1>1, <1>2, PTL DEF AccountsSpec

(* Every variable keeps its type, in any number of requests.                     *)
THEOREM AccountsTypeCorrect == AccountsSpec => []AccountsTypeOK
<1>1. AccountsInv => AccountsTypeOK
  BY DEF AccountsInv
<1>2. QED
  BY <1>1, AccountsInvHolds, PTL

LEMMA AtMostOne ==
    ASSUME NEW S, \A x, y \in S : x = y
    PROVE  Cardinality(S) <= 1
<1>1. CASE S = {}
  BY <1>1, FS_EmptySet
<1>2. CASE S # {}
  <2>1. PICK x \in S : TRUE
    BY <1>2
  <2>2. S = {x}
    BY <2>1
  <2>3. QED
    BY <2>2, FS_Singleton
<1>3. QED
  BY <1>1, <1>2

LEMMA OneAccountEach == AccountsInv => OneAccountPerAddress
<1> SUFFICES ASSUME AccountsInv, NEW a \in Address
             PROVE  Cardinality(Registered(a)) <= 1
  BY DEF OneAccountPerAddress
<1>1. \A u, v \in Registered(a) : u = v
  BY DEF AccountsInv, AddressesAreHeldOnce, Holders, Registered
<1>2. QED
  BY <1>1, AtMostOne

(* The one winner is the account that holds the address when all were answered:  *)
(* without a fault a loser was refused because of that account.                  *)
LEMMA OneWinnerEach == AccountsInv => ExactlyOneWins
<1> SUFFICES ASSUME AccountsInv, NEW a \in Address \ {OldAddress},
                    {r \in Request : kind[r] = "register" /\ arg[r] = a} # {}, faults = 0,
                    \A r \in {o \in Request : kind[o] = "register" /\ arg[o] = a} : at[r] = "done"
             PROVE  Cardinality({r \in {o \in Request : kind[o] = "register" /\ arg[o] = a} :
                                   reply[r] = 201}) = 1
  BY DEF ExactlyOneWins
<1> DEFINE rs == {o \in Request : kind[o] = "register" /\ arg[o] = a}
           won == {r \in rs : reply[r] = 201}
<1>1. \A r \in won : r \in users /\ email[r] = a
  BY DEF AccountsInv, RegistrationsAreAnswered, Answered, Holders
<1>2. \A r, o \in won : r = o
  BY <1>1 DEF AccountsInv, AddressesAreHeldOnce, Holders
<1>3. won # {}
  <2>1. PICK r \in rs : TRUE
    OBVIOUS
  <2>2. CASE reply[r] = 201
    BY <2>1, <2>2
  <2>3. CASE reply[r] # 201
    <3>1. PICK u \in users : email[u] = a
      BY <2>1, <2>3 DEF AccountsInv, RegistrationsAreAnswered, Answered, Registered
    <3>2. u \in Request
      BY <3>1 DEF AccountsInv, AccountsTypeOK, OldAccountStays, User
    <3>3. u \in rs
      BY <3>1, <3>2 DEF AccountsInv, RegistrationsAreAnswered, Answered, Holders
    <3>4. reply[u] = 201
      BY <3>1, <3>2, <3>3 DEF AccountsInv, RegistrationsAreAnswered, Answered
    <3>5. QED
      BY <3>3, <3>4
  <2>4. QED
    BY <2>2, <2>3
<1>4. PICK w \in won : won = {w}
  BY <1>2, <1>3
<1>5. Cardinality(won) = 1
  <2> HIDE DEF won
  <2>1. QED
    BY <1>4, FS_Singleton
<1>6. QED
  BY <1>5

(* Registration and login leave the tables sound, however many requests          *)
(* interleave and fail: one account per address and one winner, each account     *)
(* with its workspace, and no entry for a request that comes with a revoked key  *)
(* (user_service.py, api_key_service.py, deps.py).                               *)
THEOREM AccountsStaySound == AccountsSpec => []AccountsAreSound
<1>1. AccountsInv => AccountsAreSound
  BY OneAccountEach, OneWinnerEach DEF AccountsInv, AccountsAreSound
<1>2. QED
  BY <1>1, AccountsInvHolds, PTL

(* Whoever a token or a key lets in has an account when it runs: tokens are      *)
(* issued to accounts that are committed, keys to callers, and no row of users   *)
(* is deleted (auth.py, deps.py).                                                *)
THEOREM CallersHaveAccounts == AccountsSpec => []CallersExist
<1>1. AccountsInv => CallersExist
  BY DEF AccountsInv
<1>2. QED
  BY <1>1, AccountsInvHolds, PTL

(* A key is revoked by a request of its owner or by none, and stays revoked,     *)
(* whatever else writes to its row (api_key_service.py).                         *)
THEOREM KeysChangeByOwnerOnly == AccountsSpec => KeysChangeByOwner
<1>1. ASSUME [AccountsNext]_accountVars
      PROVE  [/\ revoked \subseteq revoked'
              /\ \A k \in revoked' \ revoked :
                   \E r \in Request : at[r] = "run" /\ arg[r] = k /\ caller[r] = owner[k]]_accountVars
  <2>1. ASSUME NEW r \in Request, RevokeKey(r)
        PROVE  /\ revoked \subseteq revoked'
               /\ \A k \in revoked' \ revoked :
                    \E o \in Request : at[o] = "run" /\ arg[o] = k /\ caller[o] = owner[k]
    BY <2>1 DEF RevokeKey
  <2>2. CASE AccountsNext /\ revoked' = revoked
    BY <2>2
  <2>3. CASE UNCHANGED accountVars
    BY <2>3
  <2>4. AccountsNext => revoked' = revoked \/ \E r \in Request : RevokeKey(r)
    BY DEF AccountsNext, Anonymous, Authenticated, CheckAddress, InsertUser, CommitUser, Refresh,
           ByToken, ByKey, Touch, LoadUser, ReadMe, CreateKey, RequestFails, Tick, dbVars
  <2>5. QED
    BY <1>1, <2>1, <2>2, <2>3, <2>4
<1>2. QED
  BY <1>1, PTL DEF AccountsSpec, KeysChangeByOwner

-------------------------------------------------------------------------------
(* The operations of a graph store.                                              *)

(* The four dictionaries of a store are in step, and no edge hangs loose.        *)
Exact(g) ==
    /\ g \in Graph
    /\ Ends(g.edges) \subseteq g.nodes
    /\ \A u \in Uid : /\ g.out[u] = {e \in g.edges : e.start = u}
                      /\ g.in[u]  = {e \in g.edges : e.end = u}

LEMMA EmptyIsExact == Exact(EmptyGraph) /\ Saved(EmptyGraph) = [nodes |-> {}, edges |-> {}]
BY DEF Exact, EmptyGraph, Graph, Ends, Saved

(* Edges are registered in the indexes of both of their ends.                    *)
LEMMA RegisterIsExact ==
    ASSUME NEW g, Exact(g), NEW N \in SUBSET Uid, NEW E \in SUBSET Edge,
           g.nodes \subseteq N, Ends(E) \subseteq N
    PROVE  /\ Exact(RegisterEdges(g, N, E))
           /\ RegisterEdges(g, N, E).nodes = N
           /\ RegisterEdges(g, N, E).edges = g.edges \cup E
<1> DEFINE h == RegisterEdges(g, N, E)
<1>1. /\ h.nodes = N /\ h.edges = g.edges \cup E
      /\ h.out = [u \in Uid |-> g.out[u] \cup {e \in E : e.start = u}]
      /\ h.in  = [u \in Uid |-> g.in[u]  \cup {e \in E : e.end   = u}]
  BY DEF RegisterEdges
<1>2. h \in Graph
  BY DEF RegisterEdges, Exact, Graph
<1>3. Ends(h.edges) \subseteq h.nodes
  BY <1>1 DEF Ends, Exact
<1>4. ASSUME NEW u \in Uid
      PROVE  h.out[u] = {e \in h.edges : e.start = u} /\ h.in[u] = {e \in h.edges : e.end = u}
  BY <1>1 DEF Exact
<1>5. QED
  BY <1>1, <1>2, <1>3, <1>4 DEF Exact

LEMMA UpsertNodesIsExact ==
    ASSUME NEW g, Exact(g), NEW N \in SUBSET Uid
    PROVE  /\ Exact(UpsertNodes(g, N))
           /\ UpsertNodes(g, N).nodes = g.nodes \cup N
           /\ UpsertNodes(g, N).edges = g.edges
BY DEF UpsertNodes, Exact, Graph

LEMMA UpsertRelationshipsIsExact ==
    ASSUME NEW g, Exact(g), NEW E \in SUBSET Edge
    PROVE  /\ Exact(UpsertRelationships(g, E))
           /\ UpsertRelationships(g, E).nodes = g.nodes \cup Ends(E)
           /\ UpsertRelationships(g, E).edges = g.edges \cup E
<1>1. g.nodes \cup Ends(E) \in SUBSET Uid
  BY DEF Exact, Graph, Ends, Edge
<1>2. /\ Exact(RegisterEdges(g, g.nodes \cup Ends(E), E))
      /\ RegisterEdges(g, g.nodes \cup Ends(E), E).nodes = g.nodes \cup Ends(E)
      /\ RegisterEdges(g, g.nodes \cup Ends(E), E).edges = g.edges \cup E
  <2>1. \A N \in SUBSET Uid, D \in SUBSET Edge :
          g.nodes \subseteq N /\ Ends(D) \subseteq N =>
            /\ Exact(RegisterEdges(g, N, D))
            /\ RegisterEdges(g, N, D).nodes = N
            /\ RegisterEdges(g, N, D).edges = g.edges \cup D
    BY RegisterIsExact
  <2>2. QED
    BY <1>1, <2>1, Zenon
<1>3. QED
  BY <1>2 DEF UpsertRelationships

LEMMA MergeRelationshipsIsExact ==
    ASSUME NEW g, Exact(g), NEW E \in SUBSET Edge
    PROVE  /\ Exact(MergeRelationships(g, E))
           /\ MergeRelationships(g, E).nodes = g.nodes
           /\ MergeRelationships(g, E).edges =
                g.edges \cup {e \in E : {e.start, e.end} \subseteq g.nodes}
<1> DEFINE F == {e \in E : {e.start, e.end} \subseteq g.nodes}
<1>1. F \in SUBSET Edge /\ Ends(F) \subseteq g.nodes /\ g.nodes \in SUBSET Uid
  BY DEF Exact, Graph, Ends
<1>2. MergeRelationships(g, E) = RegisterEdges(g, g.nodes, F)
  BY DEF MergeRelationships
<1> HIDE DEF F
<1>3. /\ Exact(RegisterEdges(g, g.nodes, F))
      /\ RegisterEdges(g, g.nodes, F).nodes = g.nodes
      /\ RegisterEdges(g, g.nodes, F).edges = g.edges \cup F
  <2>1. \A N \in SUBSET Uid, D \in SUBSET Edge :
          g.nodes \subseteq N /\ Ends(D) \subseteq N =>
            /\ Exact(RegisterEdges(g, N, D))
            /\ RegisterEdges(g, N, D).nodes = N
            /\ RegisterEdges(g, N, D).edges = g.edges \cup D
    BY RegisterIsExact
  <2>2. QED
    BY <1>1, <2>1, Zenon
<1>4. QED
  BY <1>2, <1>3 DEF F

(* The indexes lead to every edge of the paper, so that no edge outlives an end. *)
LEMMA DeletePaperIsExact ==
    ASSUME NEW g, Exact(g), NEW u \in Uid
    PROVE  /\ Exact(DeletePaper(g, u))
           /\ DeletePaper(g, u).nodes = g.nodes \ {u}
           /\ DeletePaper(g, u).edges = {e \in g.edges : u \notin {e.start, e.end}}
<1> DEFINE attached == g.out[u] \cup g.in[u]
           h == DeletePaper(g, u)
<1>1. /\ h.nodes = g.nodes \ {u} /\ h.edges = g.edges \ attached
      /\ h.out = [x \in Uid |-> IF x = u THEN {} ELSE g.out[x] \ attached]
      /\ h.in  = [x \in Uid |-> IF x = u THEN {} ELSE g.in[x] \ attached]
  BY DEF DeletePaper
<1>2. attached = {e \in g.edges : u \in {e.start, e.end}}
  BY DEF Exact
<1>3. h \in Graph
  BY DEF DeletePaper, Exact, Graph
<1> HIDE DEF attached
<1>4. h.edges = {e \in g.edges : u \notin {e.start, e.end}}
  BY <1>1, <1>2
<1>5. Ends(h.edges) \subseteq h.nodes
  BY <1>1, <1>4 DEF Ends, Exact
<1> HIDE DEF h
<1>6. ASSUME NEW x \in Uid
      PROVE  h.out[x] = {e \in h.edges : e.start = x} /\ h.in[x] = {e \in h.edges : e.end = x}
  <2>1. g.out[x] = {e \in g.edges : e.start = x} /\ g.in[x] = {e \in g.edges : e.end = x}
    BY DEF Exact
  <2>2. CASE x = u
    BY <1>1, <1>4, <2>2
  <2>3. CASE x # u
    BY <1>1, <1>2, <1>4, <2>1, <2>3
  <2>4. QED
    BY <2>2, <2>3
<1>7. QED
  BY <1>1, <1>3, <1>4, <1>5, <1>6 DEF Exact, h

(* What a process makes of the file is a store in step, ...                      *)
LEMMA LoadedIsExact ==
    ASSUME NEW f, f.nodes \in SUBSET Uid, f.edges \in SUBSET Edge
    PROVE  /\ Exact(Loaded(f))
           /\ Loaded(f).nodes = f.nodes
           /\ Loaded(f).edges = {e \in f.edges : {e.start, e.end} \subseteq f.nodes}
<1> DEFINE F == {e \in f.edges : {e.start, e.end} \subseteq f.nodes}
<1>1. F \in SUBSET Edge /\ Ends(F) \subseteq f.nodes
  BY DEF Ends
<1>2. Loaded(f) = RegisterEdges(EmptyGraph, f.nodes, F)
  BY DEF Loaded
<1>3. EmptyGraph.nodes = {} /\ EmptyGraph.edges = {}
  BY DEF EmptyGraph
<1> HIDE DEF F
<1>4. /\ Exact(RegisterEdges(EmptyGraph, f.nodes, F))
      /\ RegisterEdges(EmptyGraph, f.nodes, F).nodes = f.nodes
      /\ RegisterEdges(EmptyGraph, f.nodes, F).edges = {} \cup F
  <2>1. \A N \in SUBSET Uid, E \in SUBSET Edge : Ends(E) \subseteq N =>
          /\ Exact(RegisterEdges(EmptyGraph, N, E))
          /\ RegisterEdges(EmptyGraph, N, E).nodes = N
          /\ RegisterEdges(EmptyGraph, N, E).edges = {} \cup E
    <3>1. ASSUME NEW N \in SUBSET Uid, NEW E \in SUBSET Edge, Ends(E) \subseteq N
          PROVE  /\ Exact(RegisterEdges(EmptyGraph, N, E))
                 /\ RegisterEdges(EmptyGraph, N, E).nodes = N
                 /\ RegisterEdges(EmptyGraph, N, E).edges = EmptyGraph.edges \cup E
      <4>1. Exact(EmptyGraph)
        BY EmptyIsExact
      <4>2. EmptyGraph.nodes \subseteq N
        BY <1>3
      <4>3. QED
        BY <3>1, <4>1, <4>2, RegisterIsExact
    <3>2. QED
      BY <1>3, <3>1
  <2>2. QED
    BY <1>1, <2>1
<1>5. QED
  BY <1>2, <1>4 DEF F

(* ... and the one that was saved: the indexes need no place in the file.        *)
LEMMA LoadedSaved ==
    ASSUME NEW g, Exact(g)
    PROVE  Loaded(Saved(g)) = g
<1> DEFINE h == Loaded(Saved(g))
<1>1. Saved(g).nodes = g.nodes /\ Saved(g).edges = g.edges
  BY DEF Saved
<1>2. g.nodes \in SUBSET Uid /\ g.edges \in SUBSET Edge
  BY DEF Exact, Graph
<1>3. {e \in g.edges : {e.start, e.end} \subseteq g.nodes} = g.edges
  BY DEF Exact, Ends
<1>4. Exact(h) /\ h.nodes = g.nodes /\ h.edges = g.edges
  BY <1>1, <1>2, <1>3, LoadedIsExact
<1> HIDE DEF h
<1>5. h.out = g.out /\ h.in = g.in
  <2>1. /\ h.out \in [Uid -> SUBSET Edge] /\ g.out \in [Uid -> SUBSET Edge]
        /\ h.in \in [Uid -> SUBSET Edge] /\ g.in \in [Uid -> SUBSET Edge]
    BY <1>4 DEF Exact, Graph
  <2>2. \A u \in Uid : h.out[u] = g.out[u] /\ h.in[u] = g.in[u]
    BY <1>4 DEF Exact
  <2>3. QED
    BY <2>1, <2>2
<1>6. h \in Graph /\ g \in Graph
  BY <1>4 DEF Exact
<1>7. h = g
  BY <1>4, <1>5, <1>6 DEF Graph
<1>8. QED
  BY <1>7 DEF h

-------------------------------------------------------------------------------
(* The projection of a paper.                                                    *)

(* What can be found in a text: a uid with a label of the gazetteer.             *)
Entities == {u \in Uid : u[1] \in DOMAIN RelationForLabel}

(* An edge that the schema and the workspaces allow.                             *)
GoodEdge(e) ==
    /\ FitsSchema(e)
    /\ e.type = "CITES" => WorkspaceOf[e.start[2]] = WorkspaceOf[e.end[2]]

Neighbours(p) == {q \in Paper : WorkspaceOf[q] = WorkspaceOf[p]}

LEMMA GazetteerPositions ==
    \A l \in DOMAIN RelationForLabel : Position(GazetteerOrder, l) \in 1 .. 6
<1> DEFINE order == GazetteerOrder
<1>1. DOMAIN order = 1 .. 6
  BY DEF GazetteerOrder
<1>2. /\ order[1] = "Dataset" /\ order[2] = "Model" /\ order[3] = "Metric"
      /\ order[4] = "Task" /\ order[5] = "Method" /\ order[6] = "Benchmark"
  BY DEF GazetteerOrder
<1>3. DOMAIN RelationForLabel =
        {"Dataset", "Model", "Metric", "Task", "Method", "Benchmark"}
  BY DEF RelationForLabel
<1> HIDE DEF order
<1>4. \A l \in DOMAIN RelationForLabel : \E i \in 1 .. 6 : order[i] = l
  BY <1>2, <1>3
<1>5. QED
  BY <1>1, <1>4 DEF Position, order

(* Of the entities with one name, one is the last in the gazetteer.              *)
LEMMA EntityIsFound ==
    ASSUME NEW X \in SUBSET Entities, NEW m \in X
    PROVE  EntityNamed(m[2], X) \in X /\ EntityNamed(m[2], X)[2] = m[2]
<1> DEFINE found   == {n \in X : n[2] = m[2]}
           rank(n) == Position(GazetteerOrder, n[1])
           At(i)   == \E n \in found : rank(n) = i
<1>1. \A n \in found : rank(n) \in 1 .. 6
  BY GazetteerPositions DEF Entities
<1>2. m \in found
  OBVIOUS
<1> HIDE DEF found, rank
<1>3. \E i \in 1 .. 6 : At(i) /\ \A j \in 1 .. 6 : At(j) => j <= i
  <2>1. At(1) \/ At(2) \/ At(3) \/ At(4) \/ At(5) \/ At(6)
    BY <1>1, <1>2
  <2> HIDE DEF At
  <2>2. QED
    BY <2>1
<1>4. \E n \in found : \A o \in found : rank(o) <= rank(n)
  BY <1>1, <1>3
<1>5. EntityNamed(m[2], X) = CHOOSE n \in found : \A o \in found : rank(o) <= rank(n)
  BY DEF EntityNamed, found, rank
<1>6. EntityNamed(m[2], X) \in found
  BY <1>4, <1>5
<1>7. QED
  BY <1>6 DEF found

(* Of the entities with one name there is only one: it is found.                 *)
LEMMA OnlyEntityIsFound ==
    ASSUME NEW X \in SUBSET Entities, NEW m \in X, \A n \in X : n[2] = m[2] => n = m
    PROVE  EntityNamed(m[2], X) = m
BY EntityIsFound

LEMMA EndpointIsNode ==
    ASSUME NEW p \in Paper, NEW X \in SUBSET Entities, NEW m \in X
    PROVE  ResolveEndpoint(m[2], p, X) \in {PaperNode(p)} \cup X
BY EntityIsFound DEF ResolveEndpoint

LEMMA RelationTypes ==
    \A l \in DOMAIN RelationForLabel :
        /\ RelationForLabel[l] \in DOMAIN AllowedEdges \ {"CITES"}
        /\ AllowedEdges[RelationForLabel[l]] = <<"Paper", l>>
<1>1. DOMAIN RelationForLabel =
        {"Dataset", "Model", "Metric", "Task", "Method", "Benchmark"}
  BY DEF RelationForLabel
<1>2. QED
  BY <1>1 DEF RelationForLabel, AllowedEdges

(* What is written of a paper is typed, runs between nodes that are written with *)
(* it, fits the schema and stays in the workspace.                               *)
LEMMA ProjectionIsSound ==
    ASSUME NEW p \in Paper, NEW X \in SUBSET Entities, NEW C \in SUBSET Neighbours(p)
    PROVE  /\ ProjectedNodes(p, X, C) \in SUBSET Uid
           /\ ProjectedEdges(p, X, C) \in SUBSET Edge
           /\ Ends(ProjectedEdges(p, X, C)) \subseteq ProjectedNodes(p, X, C)
           /\ \A e \in ProjectedEdges(p, X, C) : GoodEdge(e)
<1> DEFINE N == ProjectedNodes(p, X, C)
<1>1. N \in SUBSET Uid
  BY KnowledgeAssumption DEF ProjectedNodes, Neighbours, Entities
<1>2. PaperNode(p) \in N /\ X \subseteq N /\ Metadata[p] \subseteq N
      /\ \A q \in C : q \in Paper /\ PaperNode(q) \in N
  BY DEF ProjectedNodes, Neighbours
<1>3. ASSUME NEW e \in MetadataEdges(p)
      PROVE  e \in Edge /\ {e.start, e.end} \subseteq N /\ GoodEdge(e)
  <2>1. PICK m \in Metadata[p] :
          e = [type  |-> IF m[1] = "Author" THEN "AUTHORED_BY" ELSE "PUBLISHED_IN",
               start |-> PaperNode(p), end |-> m]
    BY <1>3 DEF MetadataEdges
  <2>2. m \in Uid /\ m[1] \in {"Author", "Venue"} /\ PaperNode(p) \in Uid
    BY KnowledgeAssumption
  <2>3. PaperNode(p)[1] = "Paper"
    BY DEF PaperNode
  <2>4. FitsSchema(e) /\ e \in Edge /\ e.type # "CITES"
    BY <2>1, <2>2, <2>3 DEF FitsSchema, AllowedEdges, Edge
  <2>5. QED
    BY <1>2, <2>1, <2>4 DEF GoodEdge
<1>4. ASSUME NEW e \in RelationEdges(p, X)
      PROVE  e \in Edge /\ {e.start, e.end} \subseteq N /\ GoodEdge(e)
  <2>1. PICK m \in X :
          e = [type |-> RelationForLabel[m[1]], start |-> PaperNode(p),
               end |-> ResolveEndpoint(m[2], p, X)]
    BY <1>4 DEF RelationEdges
  <2>2. FitsSchema(e)
    BY <1>4 DEF RelationEdges
  <2>3. e.type \in DOMAIN AllowedEdges \ {"CITES"}
    BY <2>1, RelationTypes DEF Entities
  <2>4. e.end \in N /\ e.start \in N
    BY <1>2, <2>1, EndpointIsNode
  <2>5. QED
    BY <1>1, <2>1, <2>2, <2>3, <2>4 DEF GoodEdge, Edge
<1>5. ASSUME NEW e \in CitationEdges(p, C)
      PROVE  e \in Edge /\ {e.start, e.end} \subseteq N /\ GoodEdge(e)
  <2>1. PICK q \in C : e = [type |-> "CITES", start |-> PaperNode(p), end |-> PaperNode(q)]
    BY <1>5 DEF CitationEdges
  <2>2. PaperNode(p) \in Uid /\ PaperNode(q) \in Uid
    BY <1>2, KnowledgeAssumption
  <2>3. /\ PaperNode(p)[1] = "Paper" /\ PaperNode(p)[2] = p
        /\ PaperNode(q)[1] = "Paper" /\ PaperNode(q)[2] = q
    BY DEF PaperNode
  <2>4. FitsSchema(e) /\ e \in Edge
    BY <2>1, <2>2, <2>3 DEF FitsSchema, AllowedEdges, Edge
  <2>5. WorkspaceOf[e.start[2]] = WorkspaceOf[e.end[2]]
    BY <2>1, <2>3 DEF Neighbours
  <2>6. QED
    BY <1>2, <2>1, <2>4, <2>5 DEF GoodEdge
<1>6. QED
  BY <1>1, <1>3, <1>4, <1>5 DEF ProjectedEdges, Ends

(* The paper is linked to each entity whose name it shares with nothing else.    *)
LEMMA EntityIsLinked ==
    ASSUME NEW p \in Paper, NEW X \in SUBSET Entities, NEW C, NEW m \in X,
           m[2] # TitleOf[p], \A n \in X : n[2] = m[2] => n = m
    PROVE  \E e \in ProjectedEdges(p, X, C) : e.start = PaperNode(p) /\ e.end = m
<1> DEFINE e == [type |-> RelationForLabel[m[1]], start |-> PaperNode(p), end |-> m]
<1>1. ResolveEndpoint(m[2], p, X) = m
  BY OnlyEntityIsFound DEF ResolveEndpoint
<1>2. FitsSchema(e)
  <2>1. PaperNode(p)[1] = "Paper"
    BY DEF PaperNode
  <2>2. AllowedEdges[RelationForLabel[m[1]]] = <<"Paper", m[1]>>
    BY RelationTypes DEF Entities
  <2>3. QED
    BY <2>1, <2>2 DEF FitsSchema
<1>3. e \in RelationEdges(p, X)
  BY <1>1, <1>2 DEF RelationEdges
<1>4. QED
  BY <1>3 DEF ProjectedEdges

-------------------------------------------------------------------------------
(* The invariant.                                                                *)

Holder == Process \cup {Server}

(* TypeOK with the functions as functions, and the bound on removals.            *)
Typed ==
    /\ TypeOK
    /\ store \in [Holder -> Graph \cup {NoStore}]
    /\ store[Server] # NoStore
    /\ removals <= events

(* Every store is in step and holds edges the schema and the workspaces allow.   *)
StoresAreSound ==
    /\ \A s \in Holder : store[s] # NoStore =>
          Exact(store[s]) /\ \A e \in store[s].edges : GoodEdge(e)
    /\ \A e \in file.edges : GoodEdge(e)

(* A build works on a message, in a store, with what it read of the paper.       *)
Working(w) ==
    pc[w] # "idle" =>
        /\ msg[w] \in Message
        /\ store[StoreOf(w)] # NoStore
        /\ text[w] \in SUBSET Entities
        /\ pc[w] # "cites" => cited[w] \in SUBSET Neighbours(msg[w].paper)
        /\ pc[w] = "nodes" => todo[w] \subseteq ProjectedNodes(msg[w].paper, text[w], cited[w])
        /\ pc[w] = "edges" => todo[w] \subseteq EdgesOf(w)
        /\ backend = "memory" /\ pc[w] \in {"edges", "delete", "commit"} => w \in writers

BuildsWork == \A w \in Process : Working(w)

(* How far a build has come: what it is to write is in the store or still to be  *)
(* written.  Its entities stay there even if papers are removed meanwhile.       *)
Written(w) ==
    LET g == store[StoreOf(w)]
        N == ProjectedNodes(msg[w].paper, text[w], cited[w])
    IN /\ pc[w] = "nodes" => text[w] \subseteq g.nodes \cup todo[w]
       /\ pc[w] \in {"edges", "delete", "commit"} => text[w] \subseteq g.nodes
       /\ ~disturbed[w] =>
            /\ pc[w] = "nodes" => N \subseteq g.nodes \cup todo[w]
            /\ pc[w] \in {"edges", "delete", "commit"} => N \subseteq g.nodes
            /\ pc[w] = "edges" => EdgesOf(w) \subseteq g.edges \cup todo[w]
            /\ pc[w] \in {"delete", "commit"} => EdgesOf(w) \subseteq g.edges

BuildsAreWritten == \A w \in Process : Written(w)

(* The file is what its only writer holds, and holds what is mirrored.           *)
FileIsKept ==
    /\ IsFiniteSet(writers)
    /\ RestartKeepsGraph
    /\ \A p \in Paper :
         /\ mirror[p] \in SUBSET Entities
         /\ backend = "neo4j" => mirror[p] \subseteq store[Server].nodes
         /\ backend = "memory" /\ writers = {} => mirror[p] = {}
         /\ \A w \in Process :
              backend = "memory" /\ writers \subseteq {w} => mirror[p] \subseteq file.nodes

KnowledgeInv ==
    Typed /\ StoresAreSound /\ BuildsWork /\ BuildsAreWritten /\ FileIsKept

-------------------------------------------------------------------------------
(* What a step finds and what it writes.                                         *)

LEMMA StoreOfIsHolder == \A w \in Process : StoreOf(w) \in Holder
BY DEF StoreOf, Holder

LEMMA ServerIsNoProcess == Server \notin Process /\ NoMsg \notin Message
BY KnowledgeAssumption DEF Server, NoMsg, Message

(* A store that a process opens is in step, be it held or loaded from the file.  *)
LEMMA OpenedIsSound ==
    ASSUME Typed, StoresAreSound, NEW w \in Process
    PROVE  /\ Exact(Opened(w)) /\ Opened(w) \in Graph
           /\ \A e \in Opened(w).edges : GoodEdge(e)
           /\ store[StoreOf(w)] # NoStore => Opened(w) = store[StoreOf(w)]
           /\ store[StoreOf(w)] = NoStore => Opened(w) = Loaded(file)
<1>1. StoreOf(w) \in Holder
  BY StoreOfIsHolder
<1>2. CASE store[StoreOf(w)] = NoStore
  <2>1. Opened(w) = Loaded(file)
    BY <1>2 DEF Opened
  <2>2. Exact(Loaded(file)) /\ Loaded(file).edges \subseteq file.edges
    BY LoadedIsExact DEF Typed, TypeOK
  <2>3. QED
    BY <1>2, <2>1, <2>2 DEF StoresAreSound, Exact
<1>3. CASE store[StoreOf(w)] # NoStore
  BY <1>1, <1>3 DEF Opened, StoresAreSound, Exact
<1>4. QED
  BY <1>2, <1>3

(* The paper a build is about, and all it may write of it.                       *)
LEMMA ProjectionOfBuild ==
    ASSUME BuildsWork, NEW w \in Process, pc[w] \notin {"idle", "cites"}
    PROVE  LET N == ProjectedNodes(msg[w].paper, text[w], cited[w]) IN
           /\ msg[w].paper \in Paper /\ text[w] \in SUBSET Entities
           /\ N \in SUBSET Uid /\ text[w] \subseteq N
           /\ EdgesOf(w) \in SUBSET Edge /\ Ends(EdgesOf(w)) \subseteq N
           /\ \A e \in EdgesOf(w) : GoodEdge(e)
<1>1. msg[w].paper \in Paper /\ text[w] \in SUBSET Entities
      /\ cited[w] \in SUBSET Neighbours(msg[w].paper)
  BY DEF BuildsWork, Working, Message
<1>2. text[w] \subseteq ProjectedNodes(msg[w].paper, text[w], cited[w])
  BY DEF ProjectedNodes
<1>3. QED
  BY <1>1, <1>2, ProjectionIsSound DEF EdgesOf

LEMMA NodesAreWritten ==
    ASSUME Typed, StoresAreSound, BuildsWork, NEW w \in Process, WriteNodes(w)
    PROVE  LET s    == StoreOf(w)
               rows == NodeStatement(todo[w])
               g    == UpsertNodes(store[s], rows)
           IN /\ s \in Holder /\ store[s] # NoStore /\ Write(w, g)
              /\ rows \subseteq todo[w]
              /\ Exact(g) /\ \A e \in g.edges : GoodEdge(e)
              /\ g.nodes = store[s].nodes \cup rows /\ g.edges = store[s].edges
<1> DEFINE s    == StoreOf(w)
           rows == NodeStatement(todo[w])
<1>1. rows \subseteq todo[w]
  BY DEF NodeStatement
<1>2. pc[w] = "nodes"
  BY DEF WriteNodes
<1>3. rows \in SUBSET Uid
  BY <1>1, <1>2, ProjectionOfBuild DEF BuildsWork, Working
<1>4. s \in Holder /\ store[s] # NoStore
  BY <1>2, StoreOfIsHolder DEF BuildsWork, Working
<1>5. Exact(store[s]) /\ \A e \in store[s].edges : GoodEdge(e)
  BY <1>4 DEF StoresAreSound
<1>6. Write(w, UpsertNodes(store[s], rows))
  BY DEF WriteNodes
<1> HIDE DEF rows, s
<1>7. QED
  BY <1>1, <1>3, <1>4, <1>5, <1>6, UpsertNodesIsExact DEF rows, s

LEMMA EdgesAreWritten ==
    ASSUME Typed, StoresAreSound, BuildsWork, NEW w \in Process, WriteEdges(w)
    PROVE  LET s    == StoreOf(w)
               rows == EdgeStatement(todo[w])
           IN /\ s \in Holder /\ store[s] # NoStore /\ rows \subseteq todo[w]
              /\ \E g \in Graph :
                   /\ Write(w, g)
                   /\ Exact(g) /\ \A e \in g.edges : GoodEdge(e)
                   /\ store[s].nodes \subseteq g.nodes
                   /\ store[s].edges \subseteq g.edges
                   /\ Ends(rows) \subseteq store[s].nodes => rows \subseteq g.edges
<1> DEFINE s    == StoreOf(w)
           rows == EdgeStatement(todo[w])
<1>1. rows \subseteq todo[w]
  BY DEF EdgeStatement
<1>2. pc[w] = "edges"
  BY DEF WriteEdges
<1>3. rows \in SUBSET Edge /\ \A e \in rows : GoodEdge(e)
  BY <1>1, <1>2, ProjectionOfBuild DEF BuildsWork, Working
<1>4. s \in Holder /\ store[s] # NoStore
  BY <1>2, StoreOfIsHolder DEF BuildsWork, Working
<1>5. Exact(store[s]) /\ \A e \in store[s].edges : GoodEdge(e)
  BY <1>4 DEF StoresAreSound
<1>6. Write(w, IF backend = "memory" THEN UpsertRelationships(store[s], rows)
                                     ELSE MergeRelationships(store[s], rows))
  BY DEF WriteEdges
<1> HIDE DEF rows, s
<1> DEFINE u == UpsertRelationships(store[s], rows)
           m == MergeRelationships(store[s], rows)
<1>7. /\ Exact(u) /\ u.nodes = store[s].nodes \cup Ends(rows)
      /\ u.edges = store[s].edges \cup rows
  BY <1>3, <1>5, UpsertRelationshipsIsExact
<1>8. /\ Exact(m) /\ m.nodes = store[s].nodes
      /\ m.edges = store[s].edges \cup {e \in rows : {e.start, e.end} \subseteq store[s].nodes}
  BY <1>3, <1>5, MergeRelationshipsIsExact
<1>9. Ends(rows) \subseteq store[s].nodes => rows \subseteq m.edges
  BY <1>8 DEF Ends
<1> HIDE DEF u, m
<1>10. \E g \in {u, m} : Write(w, g)
  BY <1>6 DEF u, m
<1>11. PICK g \in {u, m} : Write(w, g)
  BY <1>10
<1>12. /\ g \in Graph /\ Exact(g) /\ \A e \in g.edges : GoodEdge(e)
       /\ store[s].nodes \subseteq g.nodes /\ store[s].edges \subseteq g.edges
       /\ Ends(rows) \subseteq store[s].nodes => rows \subseteq g.edges
  BY <1>3, <1>5, <1>7, <1>8, <1>9 DEF Exact
<1>13. QED
  BY <1>1, <1>4, <1>11, <1>12 DEF rows, s

(* A removal takes one node, and the edges it is an end of.                      *)
LEMMA PaperIsRemoved ==
    ASSUME Typed, StoresAreSound, NEW w \in Process, NEW p \in Paper, RemovePaper(w, p)
    PROVE  \E g \in Graph :
              /\ store' = [store EXCEPT ![StoreOf(w)] = g]
              /\ Exact(g) /\ \A e \in g.edges : GoodEdge(e)
              /\ Opened(w).nodes \ {PaperNode(p)} \subseteq g.nodes
              /\ g.nodes \subseteq Opened(w).nodes /\ g.edges \subseteq Opened(w).edges
              /\ \A e \in Opened(w).edges \ g.edges :
                    {e.start, e.end} \cap (Opened(w).nodes \ g.nodes) # {}
              /\ \/ Write(w, g)
                 \/ g = Opened(w) /\ UNCHANGED <<file, writers>>
<1> DEFINE old == Opened(w)
           u   == PaperNode(p)
           new == DeletePaper(old, u)
<1>1. Exact(old) /\ old \in Graph /\ \A e \in old.edges : GoodEdge(e)
  BY OpenedIsSound
<1>2. u \in Uid
  BY KnowledgeAssumption
<1> HIDE DEF old, u
<1>3. CASE u \in old.nodes
  <2>1. /\ Exact(new) /\ new.nodes = old.nodes \ {u}
        /\ new.edges = {e \in old.edges : u \notin {e.start, e.end}}
    BY <1>1, <1>2, DeletePaperIsExact
  <2>2. Write(w, new)
    BY <1>3 DEF RemovePaper, old, u
  <2> HIDE DEF new
  <2>3. new \in Graph
    BY <2>1 DEF Exact
  <2>4. store' = [store EXCEPT ![StoreOf(w)] = new]
    BY <2>2 DEF Write
  <2>5. /\ old.nodes \ {u} \subseteq new.nodes /\ new.nodes \subseteq old.nodes
        /\ new.edges \subseteq old.edges
        /\ \A e \in old.edges \ new.edges : {e.start, e.end} \cap (old.nodes \ new.nodes) # {}
    BY <1>3, <2>1
  <2>6. QED
    BY <1>1, <2>1, <2>2, <2>3, <2>4, <2>5 DEF old, u
<1>4. CASE u \notin old.nodes
  BY <1>1, <1>4 DEF RemovePaper, old, u
<1>5. QED
  BY <1>3, <1>4

-------------------------------------------------------------------------------
(* Types.                                                                        *)

LEMMA WriteIsTyped ==
    ASSUME Typed, NEW w \in Process, NEW g \in Graph, Write(w, g)
    PROVE  /\ DOMAIN store' = Process \cup {Server}
           /\ store' \in [Holder -> Graph \cup {NoStore}]
           /\ store'[Server] # NoStore
           /\ \A s \in Process \cup {Server} : store'[s] # NoStore => store'[s] \in Graph
           /\ file'.nodes \subseteq Uid /\ file'.edges \subseteq Edge
           /\ writers' \subseteq Process
BY KnowledgeAssumption, StoreOfIsHolder, ServerIsNoProcess
   DEF Write, Typed, TypeOK, Holder, Saved, Graph

(* A message that is put back has its next try, and tries stay in bounds.        *)
LEMMA NextTryIsMessage ==
    ASSUME NEW m \in Message, m.tries < MaxRetries
    PROVE  [m EXCEPT !.tries = m.tries + 1] \in Message
<1>1. m.tries \in 0 .. MaxRetries
  BY DEF Message
<1>2. m.tries + 1 \in 0 .. MaxRetries
  BY <1>1, KnowledgeAssumption
<1>3. QED
  BY <1>2 DEF Message

LEMMA RetriedIsTyped ==
    ASSUME NEW m \in Message, queue \subseteq Message, Retried(m)
    PROVE  queue' \subseteq Message
BY NextTryIsMessage DEF Retried

(* What is found in a text names entities.                                       *)
LEMMA ExtractedAreEntities ==
    ASSUME Typed, NEW p \in Paper, version[p] # 0
    PROVE  ExtractEntities(p) \in SUBSET Entities
<1>1. version[p] \in 1 .. MaxVersion
  BY KnowledgeAssumption DEF Typed, TypeOK
<1>2. Found[p] \in [1 .. MaxVersion -> SUBSET Entities]
  BY KnowledgeAssumption DEF Entities
<1>3. QED
  BY <1>1, <1>2 DEF ExtractEntities

(* Every step of a build and around it keeps the types.                          *)
LEMMA TypedStep ==
    ASSUME Typed, StoresAreSound, BuildsWork, [Next]_vars
    PROVE  Typed'
<1> USE KnowledgeAssumption
<1>1. ASSUME NEW p \in Paper, Reparse(p)
      PROVE  Typed'
  BY <1>1 DEF Reparse, Typed, TypeOK, Message, graphVars, buildVars
<1>2. ASSUME NEW p \in Paper, DeleteRow(p)
      PROVE  Typed'
  BY <1>2 DEF DeleteRow, Typed, TypeOK, graphVars, buildVars
<1>3. ASSUME NEW w \in Process, NEW p \in Paper, RemovePaper(w, p)
      PROVE  Typed'
  <2>1. PICK g \in Graph :
          /\ store' = [store EXCEPT ![StoreOf(w)] = g]
          /\ Write(w, g) \/ UNCHANGED <<file, writers>>
    BY <1>3, PaperIsRemoved
  <2>2. /\ store' \in [Holder -> Graph \cup {NoStore}]
        /\ store'[Server] # NoStore
    BY <2>1, StoreOfIsHolder, ServerIsNoProcess DEF Typed, Holder
  <2>3. file'.nodes \subseteq Uid /\ file'.edges \subseteq Edge /\ writers' \subseteq Process
    BY <2>1, WriteIsTyped DEF Typed, TypeOK
  <2>4. /\ backend' = backend /\ version' = version /\ queue' = queue
        /\ mirror' = [mirror EXCEPT ![p] = {}] /\ events < MaxEvents
        /\ removals' = removals + 1 /\ events' = events + 1
        /\ disturbed' = [v \in Process |-> TRUE] /\ UNCHANGED buildVars
    BY <1>3 DEF RemovePaper
  <2>5. QED
    BY <2>2, <2>3, <2>4 DEF Typed, TypeOK, Holder, buildVars
<1>4. ASSUME NEW w \in Process, NEW m \in queue, Begin(w, m)
      PROVE  Typed'
  <2>1. Opened(w) \in Graph
    BY OpenedIsSound
  <2>2. /\ store' \in [Holder -> Graph \cup {NoStore}]
        /\ store'[Server] # NoStore
    BY <1>4, <2>1, StoreOfIsHolder, ServerIsNoProcess DEF Begin, Typed, Holder
  <2>3. m \in Message /\ m.paper \in Paper
    BY DEF Typed, TypeOK, Message
  <2>4. CASE version[m.paper] = 0
    <3>1. queue' \subseteq Message
      BY <1>4, <2>3, <2>4, NextTryIsMessage DEF Begin, Typed, TypeOK
    <3>2. QED
      BY <1>4, <2>2, <2>4, <3>1 DEF Begin, Typed, TypeOK, Holder, buildVars
  <2>5. CASE version[m.paper] # 0
    <3>1. ExtractEntities(m.paper) \in SUBSET Uid
      BY <2>3, <2>5, ExtractedAreEntities DEF Entities
    <3>2. /\ queue' = queue \ {m} /\ pc' = [pc EXCEPT ![w] = "cites"]
          /\ msg' = [msg EXCEPT ![w] = m]
          /\ text' = [text EXCEPT ![w] = ExtractEntities(m.paper)]
          /\ disturbed' = [disturbed EXCEPT ![w] = FALSE]
          /\ UNCHANGED <<cited, todo, replaced, backend, version, mirror, file, writers,
                         events, removals>>
      BY <1>4, <2>5 DEF Begin
    <3>3. disturbed' \in [Process -> BOOLEAN]
      BY <3>2 DEF Typed, TypeOK
    <3>4. /\ queue' \subseteq Message /\ pc' \in [Process -> Step]
          /\ msg' \in [Process -> Message \cup {NoMsg}]
          /\ text' \in [Process -> SUBSET Uid]
      BY <2>3, <3>1, <3>2 DEF Typed, TypeOK, Step
    <3>5. QED
      BY <2>2, <3>2, <3>3, <3>4 DEF Typed, TypeOK, Holder
  <2>6. QED
    BY <2>4, <2>5
<1>5. ASSUME NEW w \in Process, ReadCitations(w)
      PROVE  Typed'
  <2>1. msg[w].paper \in Paper /\ text[w] \in SUBSET Entities
    BY <1>5 DEF ReadCitations, BuildsWork, Working, Message
  <2>2. CitedPapers(msg[w].paper) \in SUBSET Neighbours(msg[w].paper)
    BY DEF CitedPapers, Neighbours
  <2>3. ProjectedNodes(msg[w].paper, text[w], CitedPapers(msg[w].paper)) \in SUBSET Uid
    BY <2>1, <2>2, ProjectionIsSound
  <2>4. QED
    BY <1>5, <2>2, <2>3
    DEF ReadCitations, Typed, TypeOK, Step, Neighbours, graphVars, dataVars
<1>6. ASSUME NEW w \in Process, WriteNodes(w)
      PROVE  Typed'
  <2>1. PICK g \in Graph : Write(w, g)
    BY <1>6, NodesAreWritten DEF Exact
  <2>2. EdgesOf(w) \in SUBSET Edge
    BY <1>6, ProjectionOfBuild DEF WriteNodes
  <2>3. QED
    BY <1>6, <2>1, <2>2, WriteIsTyped DEF WriteNodes, Typed, TypeOK, Step, dataVars
<1>7. ASSUME NEW w \in Process, WriteEdges(w)
      PROVE  Typed'
  <2>1. PICK g \in Graph : Write(w, g)
    BY <1>7, EdgesAreWritten
  <2>2. QED
    BY <1>7, <2>1, WriteIsTyped DEF WriteEdges, Typed, TypeOK, Step, dataVars
<1>8. ASSUME NEW w \in Process, MirrorDelete(w)
      PROVE  Typed'
  <2>1. msg[w].paper \in Paper
    BY <1>8 DEF MirrorDelete, BuildsWork, Working, Message
  <2>2. QED
    BY <1>8, <2>1 DEF MirrorDelete, Typed, TypeOK, Step, graphVars, dataVars
<1>9. ASSUME NEW w \in Process, MirrorCommit(w)
      PROVE  Typed'
  <2>1. msg[w] \in Message /\ msg[w].paper \in Paper
    BY <1>9 DEF MirrorCommit, BuildsWork, Working, Message
  <2>2. queue' \subseteq Message
    BY <1>9, <2>1, RetriedIsTyped DEF MirrorCommit, Typed, TypeOK
  <2>3. mirror' \in [Paper -> SUBSET Uid]
    <3>1. (mirror[msg[w].paper] \ replaced[w]) \cup text[w] \in SUBSET Uid
      BY <2>1 DEF Typed, TypeOK
    <3>2. \/ mirror' = mirror
          \/ mirror' = [mirror EXCEPT ![msg[w].paper] =
                          (mirror[msg[w].paper] \ replaced[w]) \cup text[w]]
      BY <1>9 DEF MirrorCommit
    <3>3. QED
      BY <2>1, <3>1, <3>2 DEF Typed, TypeOK
  <2>4. QED
    BY <1>9, <2>2, <2>3 DEF MirrorCommit, Idle, Typed, TypeOK, Step, graphVars
<1>10. ASSUME NEW w \in Process, Fail(w)
      PROVE  Typed'
  <2>1. msg[w] \in Message
    BY <1>10 DEF Fail, BuildsWork, Working
  <2>2. queue' \subseteq Message
    BY <1>10, <2>1, RetriedIsTyped DEF Fail, Typed, TypeOK
  <2>3. QED
    BY <1>10, <2>2 DEF Fail, Idle, Typed, TypeOK, Step, graphVars
<1>11. ASSUME NEW w \in Process, Crash(w)
      PROVE  Typed'
  <2>1. pc[w] # "idle" => msg[w] \in Message
    BY <1>11 DEF BuildsWork, Working
  <2>2. queue' \subseteq Message
    BY <1>11, <2>1 DEF Crash, Typed, TypeOK
  <2>3. /\ store' \in [Holder -> Graph \cup {NoStore}]
        /\ store'[Server] # NoStore
    BY <1>11, ServerIsNoProcess DEF Crash, Typed, Holder
  <2>4. QED
    BY <1>11, <2>2, <2>3 DEF Crash, Idle, Typed, TypeOK, Holder, Step
<1>12. ASSUME NEW w \in Process, Redeliver(w)
      PROVE  Typed'
  <2>1. msg[w] \in Message
    BY <1>12 DEF Redeliver, BuildsWork, Working
  <2>2. QED
    BY <1>12, <2>1 DEF Redeliver, Typed, TypeOK, graphVars, buildVars
<1>13. CASE UNCHANGED vars
  BY <1>13 DEF vars, Typed, TypeOK, dataVars, graphVars, buildVars
<1>14. QED
  BY <1>1, <1>2, <1>3, <1>4, <1>5, <1>6, <1>7, <1>8, <1>9, <1>10, <1>11, <1>12, <1>13
  DEF Next

-------------------------------------------------------------------------------
(* The stores.                                                                   *)

LEMMA WriteIsSound ==
    ASSUME Typed, StoresAreSound, NEW w \in Process, NEW g \in Graph, Exact(g),
           \A e \in g.edges : GoodEdge(e),
           store' = [store EXCEPT ![StoreOf(w)] = g],
           Write(w, g) \/ file' = file
    PROVE  StoresAreSound'
<1>1. ASSUME NEW s \in Holder, store'[s] # NoStore
      PROVE  Exact(store'[s]) /\ \A e \in store'[s].edges : GoodEdge(e)
  BY <1>1 DEF Typed, StoresAreSound
<1>2. \A e \in file'.edges : GoodEdge(e)
  BY DEF Write, Saved, StoresAreSound
<1>3. QED
  BY <1>1, <1>2 DEF StoresAreSound

LEMMA StoresStep ==
    ASSUME Typed, StoresAreSound, BuildsWork, [Next]_vars
    PROVE  StoresAreSound'
<1>1. ASSUME NEW w \in Process, NEW p \in Paper, RemovePaper(w, p)
      PROVE  StoresAreSound'
  <2>1. PICK g \in Graph :
          /\ store' = [store EXCEPT ![StoreOf(w)] = g]
          /\ Exact(g) /\ \A e \in g.edges : GoodEdge(e)
          /\ Write(w, g) \/ file' = file
    BY <1>1, PaperIsRemoved
  <2>2. QED
    BY <2>1, WriteIsSound
<1>2. ASSUME NEW w \in Process, NEW m \in queue, Begin(w, m)
      PROVE  StoresAreSound'
  <2>1. store' = [store EXCEPT ![StoreOf(w)] = Opened(w)] /\ file' = file
    BY <1>2 DEF Begin
  <2>2. QED
    BY <2>1, OpenedIsSound, WriteIsSound
<1>3. ASSUME NEW w \in Process, WriteNodes(w)
      PROVE  StoresAreSound'
  <2>1. PICK g \in Graph : Write(w, g) /\ Exact(g) /\ \A e \in g.edges : GoodEdge(e)
    BY <1>3, NodesAreWritten DEF Exact
  <2>2. store' = [store EXCEPT ![StoreOf(w)] = g]
    BY <2>1 DEF Write
  <2>3. QED
    BY <2>1, <2>2, WriteIsSound
<1>4. ASSUME NEW w \in Process, WriteEdges(w)
      PROVE  StoresAreSound'
  <2>1. PICK g \in Graph : Write(w, g) /\ Exact(g) /\ \A e \in g.edges : GoodEdge(e)
    BY <1>4, EdgesAreWritten
  <2>2. store' = [store EXCEPT ![StoreOf(w)] = g]
    BY <2>1 DEF Write
  <2>3. QED
    BY <2>1, <2>2, WriteIsSound
<1>5. ASSUME NEW w \in Process, Crash(w)
      PROVE  StoresAreSound'
  BY <1>5 DEF Crash, Typed, StoresAreSound
<1>6. CASE UNCHANGED <<store, file>>
  BY <1>6 DEF StoresAreSound
<1>7. QED
  BY <1>1, <1>2, <1>3, <1>4, <1>5, <1>6
  DEF Next, vars, graphVars, Reparse, DeleteRow, ReadCitations, MirrorDelete, MirrorCommit,
      Fail, Redeliver

-------------------------------------------------------------------------------
(* The builds.                                                                   *)

LEMMA WorkStep ==
    ASSUME Typed, StoresAreSound, BuildsWork, [Next]_vars
    PROVE  BuildsWork'
<1> SUFFICES ASSUME NEW v \in Process PROVE Working(v)'
  BY DEF BuildsWork
<1>0. Working(v) /\ StoreOf(v) \in Holder
  BY StoreOfIsHolder DEF BuildsWork
<1>1. CASE \E p \in Paper : Reparse(p) \/ DeleteRow(p)
  BY <1>0, <1>1 DEF Reparse, DeleteRow, Working, StoreOf, EdgesOf, graphVars, buildVars
<1>2. ASSUME NEW w \in Process, NEW p \in Paper, RemovePaper(w, p)
      PROVE  Working(v)'
  <2>1. PICK g \in Graph :
          /\ store' = [store EXCEPT ![StoreOf(w)] = g]
          /\ Write(w, g) \/ UNCHANGED <<file, writers>>
    BY <1>2, PaperIsRemoved
  <2>2. store[StoreOf(v)] # NoStore => store'[StoreOf(v)] # NoStore
    BY <1>0, <2>1, KnowledgeAssumption DEF Typed
  <2>3. writers \subseteq writers'
    BY <2>1 DEF Write
  <2>4. QED
    BY <1>0, <1>2, <2>2, <2>3 DEF RemovePaper, Working, StoreOf, EdgesOf, buildVars
<1>3. ASSUME NEW w \in Process, NEW m \in queue, Begin(w, m)
      PROVE  Working(v)'
  <2>1. /\ store' = [store EXCEPT ![StoreOf(w)] = Opened(w)]
        /\ backend' = backend /\ writers' = writers
    BY <1>3 DEF Begin
  <2>2. Opened(w) # NoStore
    BY OpenedIsSound, KnowledgeAssumption
  <2>3. /\ store[StoreOf(v)] # NoStore => store'[StoreOf(v)] # NoStore
        /\ store'[StoreOf(w)] # NoStore
    BY <1>0, <2>1, <2>2, StoreOfIsHolder DEF Typed
  <2>4. CASE version[m.paper] = 0 \/ v # w
    BY <1>0, <1>3, <2>1, <2>3, <2>4 DEF Begin, Working, StoreOf, EdgesOf, buildVars, Typed, TypeOK
  <2>5. CASE version[m.paper] # 0 /\ v = w
    <3>1. m \in Message /\ m.paper \in Paper
      BY DEF Typed, TypeOK, Message
    <3>2. pc'[v] = "cites" /\ msg'[v] = m /\ text'[v] = ExtractEntities(m.paper)
      BY <1>3, <2>5 DEF Begin, Typed, TypeOK
    <3>3. StoreOf(v)' = StoreOf(v)
      BY <2>1 DEF StoreOf
    <3>4. QED
      BY <2>3, <2>5, <3>1, <3>2, <3>3, ExtractedAreEntities DEF Working
  <2>6. QED
    BY <2>4, <2>5
<1>4. ASSUME NEW w \in Process, ReadCitations(w)
      PROVE  Working(v)'
  <2>1. CASE v = w
    <3>1. CitedPapers(msg[w].paper) \in SUBSET Neighbours(msg[w].paper)
      BY DEF CitedPapers, Neighbours
    <3>2. /\ cited'[v] = CitedPapers(msg[w].paper) /\ pc'[v] = "nodes"
          /\ todo'[v] = ProjectedNodes(msg[w].paper, text[w], CitedPapers(msg[w].paper))
          /\ msg' = msg /\ text' = text /\ store' = store /\ backend' = backend
      BY <1>4, <2>1 DEF ReadCitations, Typed, TypeOK, graphVars
    <3>3. pc[v] = "cites"
      BY <1>4, <2>1 DEF ReadCitations
    <3>4. QED
      BY <1>0, <2>1, <3>1, <3>2, <3>3 DEF Working, StoreOf
  <2>2. CASE v # w
    BY <1>0, <1>4, <2>2 DEF ReadCitations, Working, StoreOf, EdgesOf, graphVars, Typed, TypeOK
  <2>3. QED
    BY <2>1, <2>2
<1>5. ASSUME NEW w \in Process, WriteNodes(w)
      PROVE  Working(v)'
  <2>1. PICK g \in Graph : Write(w, g)
    BY <1>5, NodesAreWritten DEF Exact
  <2>2. /\ store[StoreOf(v)] # NoStore => store'[StoreOf(v)] # NoStore
        /\ writers \subseteq writers'
        /\ backend = "memory" => w \in writers'
    BY <1>0, <2>1, KnowledgeAssumption DEF Write, Typed
  <2>3. CASE v = w
    <3>1. /\ pc[v] = "nodes" /\ UNCHANGED <<msg, text, cited, backend>>
          /\ \/ pc'[v] = "nodes" /\ todo'[v] \subseteq todo[v]
             \/ pc'[v] \in {"edges", "delete"} /\ todo'[v] = EdgesOf(w)
      BY <1>5, <2>3 DEF WriteNodes, Typed, TypeOK
    <3>2. EdgesOf(w)' = EdgesOf(w)
      BY <3>1 DEF EdgesOf
    <3>3. QED
      BY <1>0, <2>2, <2>3, <3>1, <3>2 DEF Working, StoreOf
  <2>4. CASE v # w
    BY <1>0, <1>5, <2>2, <2>4 DEF WriteNodes, Working, StoreOf, EdgesOf, Typed, TypeOK
  <2>5. QED
    BY <2>3, <2>4
<1>6. ASSUME NEW w \in Process, WriteEdges(w)
      PROVE  Working(v)'
  <2>1. PICK g \in Graph : Write(w, g)
    BY <1>6, EdgesAreWritten
  <2>2. /\ store[StoreOf(v)] # NoStore => store'[StoreOf(v)] # NoStore
        /\ writers \subseteq writers'
    BY <1>0, <2>1, KnowledgeAssumption DEF Write, Typed
  <2>3. CASE v = w
    <3>1. /\ pc[v] = "edges" /\ UNCHANGED <<msg, text, cited, backend>>
          /\ pc'[v] \in {"edges", "delete"} /\ todo'[v] \subseteq todo[v]
      BY <1>6, <2>3 DEF WriteEdges, Typed, TypeOK
    <3>2. EdgesOf(w)' = EdgesOf(w)
      BY <3>1 DEF EdgesOf
    <3>3. QED
      BY <1>0, <2>2, <2>3, <3>1, <3>2 DEF Working, StoreOf
  <2>4. CASE v # w
    BY <1>0, <1>6, <2>2, <2>4 DEF WriteEdges, Working, StoreOf, EdgesOf, Typed, TypeOK
  <2>5. QED
    BY <2>3, <2>4
<1>7. ASSUME NEW w \in Process, MirrorDelete(w)
      PROVE  Working(v)'
  BY <1>0, <1>7 DEF MirrorDelete, Working, StoreOf, EdgesOf, graphVars, Typed, TypeOK
<1>8. ASSUME NEW w \in Process, MirrorCommit(w) \/ Fail(w)
      PROVE  Working(v)'
  <2>1. CASE v = w
    BY <1>8, <2>1 DEF MirrorCommit, Fail, Idle, Working, Typed, TypeOK
  <2>2. CASE v # w
    BY <1>0, <1>8, <2>2
    DEF MirrorCommit, Fail, Idle, Working, StoreOf, EdgesOf, graphVars, Typed, TypeOK
  <2>3. QED
    BY <2>1, <2>2
<1>9. ASSUME NEW w \in Process, Crash(w)
      PROVE  Working(v)'
  <2>1. CASE v = w
    BY <1>9, <2>1 DEF Crash, Idle, Working, Typed, TypeOK
  <2>2. CASE v # w
    <3>1. StoreOf(v) # w
      BY <2>2, ServerIsNoProcess DEF StoreOf
    <3>2. QED
      BY <1>0, <1>9, <2>2, <3>1 DEF Crash, Idle, Working, StoreOf, EdgesOf, Typed, TypeOK
  <2>3. QED
    BY <2>1, <2>2
<1>10. CASE (\E w \in Process : Redeliver(w)) \/ UNCHANGED vars
  BY <1>0, <1>10 DEF Redeliver, vars, Working, StoreOf, EdgesOf, graphVars, buildVars
<1>11. QED
  BY <1>1, <1>2, <1>3, <1>4, <1>5, <1>6, <1>7, <1>8, <1>9, <1>10 DEF Next

(* A build that rests keeps what it has written, while its store only grows.     *)
LEMMA RestKeepsWritten ==
    ASSUME NEW v \in Process, Written(v), backend' = backend,
           pc'[v] = pc[v], msg'[v] = msg[v], text'[v] = text[v], cited'[v] = cited[v],
           todo'[v] = todo[v], disturbed'[v] = disturbed[v],
           pc[v] # "idle" => /\ store[StoreOf(v)].nodes \subseteq store'[StoreOf(v)].nodes
                             /\ store[StoreOf(v)].edges \subseteq store'[StoreOf(v)].edges
    PROVE  Written(v)'
<1>1. StoreOf(v)' = StoreOf(v) /\ EdgesOf(v)' = EdgesOf(v)
  BY DEF StoreOf, EdgesOf
<1>2. CASE pc[v] = "idle"
  BY <1>2 DEF Written
<1>3. CASE pc[v] # "idle"
  BY <1>1, <1>3 DEF Written
<1>4. QED
  BY <1>2, <1>3

(* A removal leaves the entities where they are.                                 *)
LEMMA PaperIsNoEntity == \A p \in Paper : PaperNode(p) \notin Entities
BY DEF PaperNode, Entities, RelationForLabel

LEMMA WrittenStep ==
    ASSUME Typed, StoresAreSound, BuildsWork, BuildsAreWritten, [Next]_vars
    PROVE  BuildsAreWritten'
<1> SUFFICES ASSUME NEW v \in Process PROVE Written(v)'
  BY DEF BuildsAreWritten
<1>0. /\ Written(v) /\ Working(v) /\ StoreOf(v) \in Holder
      /\ pc[v] # "idle" => store[StoreOf(v)] # NoStore
  BY StoreOfIsHolder DEF BuildsWork, BuildsAreWritten, Working
<1>1. CASE \E p \in Paper : Reparse(p) \/ DeleteRow(p)
  BY <1>0, <1>1, RestKeepsWritten DEF Reparse, DeleteRow, graphVars, buildVars
<1>2. ASSUME NEW w \in Process, NEW p \in Paper, RemovePaper(w, p)
      PROVE  Written(v)'
  <2>1. PICK g \in Graph :
          /\ store' = [store EXCEPT ![StoreOf(w)] = g]
          /\ Opened(w).nodes \ {PaperNode(p)} \subseteq g.nodes
    BY <1>2, PaperIsRemoved
  <2>2. disturbed'[v] = TRUE /\ UNCHANGED <<pc, msg, text, cited, todo, backend>>
    BY <1>2 DEF RemovePaper, buildVars
  <2>3. StoreOf(v)' = StoreOf(v)
    BY <2>2 DEF StoreOf
  <2>4. CASE pc[v] = "idle"
    BY <2>2, <2>4 DEF Written
  <2>5. CASE pc[v] # "idle"
    <3>1. store[StoreOf(v)].nodes \ {PaperNode(p)} \subseteq store'[StoreOf(v)].nodes
      BY <1>0, <2>1, <2>5, OpenedIsSound DEF Typed
    <3>2. PaperNode(p) \notin text[v]
      BY <1>0, <2>5, PaperIsNoEntity DEF Working
    <3>3. QED
      BY <1>0, <2>2, <2>3, <3>1, <3>2 DEF Written
  <2>6. QED
    BY <2>4, <2>5
<1>3. ASSUME NEW w \in Process, NEW m \in queue, Begin(w, m)
      PROVE  Written(v)'
  <2>1. store' = [store EXCEPT ![StoreOf(w)] = Opened(w)] /\ backend' = backend
    BY <1>3 DEF Begin
  <2>2. pc[v] # "idle" => store'[StoreOf(v)] = store[StoreOf(v)]
    BY <1>0, <2>1, OpenedIsSound DEF Typed
  <2>3. CASE version[m.paper] = 0 \/ v # w
    BY <1>0, <1>3, <2>1, <2>2, <2>3, RestKeepsWritten DEF Begin, buildVars, Typed, TypeOK
  <2>4. CASE version[m.paper] # 0 /\ v = w
    <3>1. pc'[v] = "cites"
      BY <1>3, <2>4 DEF Begin, Typed, TypeOK
    <3>2. QED
      BY <3>1 DEF Written
  <2>5. QED
    BY <2>3, <2>4
<1>4. ASSUME NEW w \in Process, ReadCitations(w)
      PROVE  Written(v)'
  <2>1. CASE v = w
    <3>1. /\ pc'[v] = "nodes" /\ text' = text /\ msg' = msg
          /\ todo'[v] = ProjectedNodes(msg[v].paper, text[v], cited'[v])
      BY <1>4, <2>1 DEF ReadCitations, Typed, TypeOK
    <3>2. text[v] \subseteq todo'[v]
      BY <3>1 DEF ProjectedNodes
    <3>3. QED
      BY <3>1, <3>2 DEF Written
  <2>2. CASE v # w
    BY <1>0, <1>4, <2>2, RestKeepsWritten DEF ReadCitations, graphVars, Typed, TypeOK
  <2>3. QED
    BY <2>1, <2>2
<1>5. ASSUME NEW w \in Process, WriteNodes(w)
      PROVE  Written(v)'
  <2> DEFINE rows == NodeStatement(todo[w])
  <2>1. PICK g \in Graph :
          /\ store' = [store EXCEPT ![StoreOf(w)] = g]
          /\ g.nodes = store[StoreOf(w)].nodes \cup rows /\ g.edges = store[StoreOf(w)].edges
    BY <1>5, NodesAreWritten DEF Exact, Write
  <2>2. UNCHANGED <<backend, msg, text, cited, disturbed>> /\ pc[w] = "nodes"
    BY <1>5 DEF WriteNodes
  <2>3. StoreOf(v)' = StoreOf(v) /\ EdgesOf(v)' = EdgesOf(v)
    BY <2>2 DEF StoreOf, EdgesOf
  <2>4. CASE v = w
    <3>1. store'[StoreOf(v)] = g
      BY <1>0, <2>1, <2>4 DEF Typed
    <3>2. \/ pc'[v] = "nodes" /\ todo'[v] = todo[v] \ rows
          \/ /\ todo[v] \ rows = {} /\ todo'[v] = EdgesOf(v)
             /\ \/ pc'[v] = "edges"
                \/ pc'[v] = "delete" /\ EdgesOf(v) = {}
      BY <1>5, <2>4 DEF WriteNodes, Typed, TypeOK
    <3> HIDE DEF rows
    <3>3. CASE pc'[v] = "nodes"
      BY <1>0, <2>1, <2>2, <2>3, <2>4, <3>1, <3>2, <3>3 DEF Written
    <3>4. CASE pc'[v] # "nodes"
      BY <1>0, <2>1, <2>2, <2>3, <2>4, <3>1, <3>2, <3>4 DEF Written
    <3>5. QED
      BY <3>3, <3>4
  <2>5. CASE v # w
    <3>1. /\ store[StoreOf(v)].nodes \subseteq store'[StoreOf(v)].nodes
          /\ store[StoreOf(v)].edges \subseteq store'[StoreOf(v)].edges
      BY <1>0, <2>1 DEF Typed
    <3>2. pc'[v] = pc[v] /\ todo'[v] = todo[v]
      BY <1>5, <2>5 DEF WriteNodes, Typed, TypeOK
    <3>3. QED
      BY <1>0, <2>2, <3>1, <3>2, RestKeepsWritten
  <2>6. QED
    BY <2>4, <2>5
<1>6. ASSUME NEW w \in Process, WriteEdges(w)
      PROVE  Written(v)'
  <2> DEFINE rows == EdgeStatement(todo[w])
  <2>1. PICK g \in Graph :
          /\ store' = [store EXCEPT ![StoreOf(w)] = g]
          /\ store[StoreOf(w)].nodes \subseteq g.nodes
          /\ store[StoreOf(w)].edges \subseteq g.edges
          /\ Ends(rows) \subseteq store[StoreOf(w)].nodes => rows \subseteq g.edges
    BY <1>6, EdgesAreWritten DEF Write
  <2>2. UNCHANGED <<backend, msg, text, cited, disturbed>> /\ pc[w] = "edges"
    BY <1>6 DEF WriteEdges
  <2>3. StoreOf(v)' = StoreOf(v) /\ EdgesOf(v)' = EdgesOf(v)
    BY <2>2 DEF StoreOf, EdgesOf
  <2>4. CASE v = w
    <3>1. store'[StoreOf(v)] = g
      BY <1>0, <2>1, <2>4 DEF Typed
    <3>2. \/ pc'[v] = "edges" /\ todo'[v] = todo[v] \ rows
          \/ pc'[v] = "delete" /\ todo[v] \ rows = {}
      BY <1>6, <2>4 DEF WriteEdges, Typed, TypeOK
    <3>3. rows \subseteq EdgesOf(v)
      BY <1>0, <1>6, <2>2, <2>4, EdgesAreWritten DEF Working
    <3>4. Ends(EdgesOf(v)) \subseteq ProjectedNodes(msg[v].paper, text[v], cited[v])
      BY <2>2, <2>4, ProjectionOfBuild
    <3>5. Ends(rows) \subseteq ProjectedNodes(msg[v].paper, text[v], cited[v])
      BY <3>3, <3>4 DEF Ends
    <3> HIDE DEF rows
    <3>6. ~disturbed[v] => rows \subseteq g.edges
      BY <1>0, <2>1, <2>2, <2>4, <3>5 DEF Written
    <3>7. QED
      BY <1>0, <2>1, <2>2, <2>3, <2>4, <3>1, <3>2, <3>6 DEF Written
  <2>5. CASE v # w
    <3>1. /\ store[StoreOf(v)].nodes \subseteq store'[StoreOf(v)].nodes
          /\ store[StoreOf(v)].edges \subseteq store'[StoreOf(v)].edges
      BY <1>0, <2>1 DEF Typed
    <3>2. pc'[v] = pc[v] /\ todo'[v] = todo[v]
      BY <1>6, <2>5 DEF WriteEdges, Typed, TypeOK
    <3>3. QED
      BY <1>0, <2>2, <3>1, <3>2, RestKeepsWritten
  <2>6. QED
    BY <2>4, <2>5
<1>7. ASSUME NEW w \in Process, MirrorDelete(w)
      PROVE  Written(v)'
  <2>1. CASE v = w
    <3>1. /\ pc[v] = "delete" /\ pc'[v] = "commit"
          /\ UNCHANGED <<backend, store, msg, text, cited, disturbed>>
      BY <1>7, <2>1 DEF MirrorDelete, graphVars, Typed, TypeOK
    <3>2. StoreOf(v)' = StoreOf(v) /\ EdgesOf(v)' = EdgesOf(v)
      BY <3>1 DEF StoreOf, EdgesOf
    <3>3. QED
      BY <1>0, <3>1, <3>2 DEF Written
  <2>2. CASE v # w
    BY <1>0, <1>7, <2>2, RestKeepsWritten DEF MirrorDelete, graphVars, Typed, TypeOK
  <2>3. QED
    BY <2>1, <2>2
<1>8. ASSUME NEW w \in Process, MirrorCommit(w) \/ Fail(w)
      PROVE  Written(v)'
  <2>1. CASE v = w
    <3>1. pc'[v] = "idle"
      BY <1>8, <2>1 DEF MirrorCommit, Fail, Idle, Typed, TypeOK
    <3>2. QED
      BY <3>1 DEF Written
  <2>2. CASE v # w
    BY <1>0, <1>8, <2>2, RestKeepsWritten DEF MirrorCommit, Fail, Idle, graphVars, Typed, TypeOK
  <2>3. QED
    BY <2>1, <2>2
<1>9. ASSUME NEW w \in Process, Crash(w)
      PROVE  Written(v)'
  <2>1. CASE v = w
    <3>1. pc'[v] = "idle"
      BY <1>9, <2>1 DEF Crash, Idle, Typed, TypeOK
    <3>2. QED
      BY <3>1 DEF Written
  <2>2. CASE v # w
    <3>1. StoreOf(v) # w
      BY <2>2, ServerIsNoProcess DEF StoreOf
    <3>2. store'[StoreOf(v)] = store[StoreOf(v)]
      BY <1>0, <1>9, <3>1 DEF Crash, Typed
    <3>3. QED
      BY <1>0, <1>9, <2>2, <3>2, RestKeepsWritten DEF Crash, Idle, Typed, TypeOK
  <2>3. QED
    BY <2>1, <2>2
<1>10. CASE (\E w \in Process : Redeliver(w)) \/ UNCHANGED vars
  BY <1>0, <1>10, RestKeepsWritten DEF Redeliver, vars, graphVars, buildVars
<1>11. QED
  BY <1>1, <1>2, <1>3, <1>4, <1>5, <1>6, <1>7, <1>8, <1>9, <1>10 DEF Next

-------------------------------------------------------------------------------
(* The file and the mirror.                                                      *)

(* A process that is the only writer, if there is one, opens what is on disk.    *)
LEMMA OpenedIsFile ==
    ASSUME Typed, StoresAreSound, FileIsKept, NEW w \in Process,
           backend = "memory", writers \subseteq {w}
    PROVE  Opened(w) = Loaded(file) /\ Opened(w).nodes = file.nodes
<1>1. StoreOf(w) = w
  BY DEF StoreOf
<1>2. Opened(w) = Loaded(file)
  BY <1>1, OpenedIsSound DEF FileIsKept, RestartKeepsGraph
<1>3. Loaded(file).nodes = file.nodes
  BY LoadedIsExact DEF Typed, TypeOK
<1>4. QED
  BY <1>2, <1>3

LEMMA OpenKeepsFile ==
    ASSUME Typed, StoresAreSound, FileIsKept, NEW w \in Process,
           store' = [store EXCEPT ![StoreOf(w)] = Opened(w)],
           UNCHANGED <<backend, file, writers>>,
           \A p \in Paper : mirror'[p] \subseteq mirror[p]
    PROVE  FileIsKept'
<1>1. backend = "neo4j" => store'[Server] = store[Server]
  BY OpenedIsSound DEF Typed, Holder, StoreOf
<1>2. RestartKeepsGraph'
  <2> SUFFICES ASSUME NEW v \in Process,
                      backend = "memory", writers \subseteq {v}, store'[v] # NoStore
               PROVE  store'[v] = Loaded(file)
    BY DEF RestartKeepsGraph
  <2>1. CASE v = w
    <3>1. store'[v] = Opened(v)
      BY <2>1 DEF Typed, Holder, StoreOf
    <3>2. QED
      BY <3>1, OpenedIsFile
  <2>2. CASE v # w
    BY <2>2 DEF FileIsKept, RestartKeepsGraph, Typed, Holder, StoreOf
  <2>3. QED
    BY <2>1, <2>2
<1>3. QED
  BY <1>1, <1>2 DEF FileIsKept

LEMMA WriteKeepsFile ==
    ASSUME Typed, StoresAreSound, FileIsKept, NEW w \in Process, NEW g \in Graph,
           Exact(g), Write(w, g), backend' = backend,
           Opened(w).nodes \cap Entities \subseteq g.nodes,
           \A p \in Paper : mirror'[p] \subseteq mirror[p]
    PROVE  FileIsKept'
<1>1. store' = [store EXCEPT ![StoreOf(w)] = g]
  BY DEF Write
<1>2. CASE backend = "neo4j"
  <2>1. store'[Server] = g /\ Opened(w) = store[Server] /\ UNCHANGED <<file, writers>>
    BY <1>1, <1>2, OpenedIsSound DEF Write, StoreOf, Typed, Holder
  <2>2. QED
    BY <1>2, <2>1 DEF FileIsKept, RestartKeepsGraph
<1>3. CASE backend = "memory"
  <2>1. /\ store'[w] = g /\ file' = Saved(g) /\ writers' = writers \cup {w}
    BY <1>1, <1>3 DEF Write, StoreOf, Typed, Holder
  <2>2. IsFiniteSet(writers')
    BY <2>1, FS_AddElement DEF FileIsKept
  <2>3. Loaded(file') = g /\ file'.nodes = g.nodes
    BY <2>1, LoadedSaved DEF Saved
  <2>4. \A v \in Process : writers' \subseteq {v} => v = w /\ writers \subseteq {w}
    BY <2>1
  <2>5. RestartKeepsGraph'
    BY <2>1, <2>3, <2>4 DEF RestartKeepsGraph
  <2>6. ASSUME NEW p \in Paper
        PROVE  /\ mirror'[p] \in SUBSET Entities
               /\ writers' # {}
               /\ \A v \in Process : writers' \subseteq {v} => mirror'[p] \subseteq file'.nodes
    <3>1. writers \subseteq {w} => mirror[p] \subseteq Opened(w).nodes
      BY <1>3, OpenedIsFile DEF FileIsKept
    <3>2. QED
      BY <2>1, <2>3, <2>4, <3>1 DEF FileIsKept
  <2>7. QED
    BY <1>3, <2>2, <2>5, <2>6 DEF FileIsKept
<1>4. QED
  BY <1>2, <1>3 DEF Typed, TypeOK

LEMMA FileStep ==
    ASSUME Typed, StoresAreSound, BuildsWork, BuildsAreWritten, FileIsKept, [Next]_vars
    PROVE  FileIsKept'
<1>1. ASSUME NEW p \in Paper, DeleteRow(p)
      PROVE  FileIsKept'
  <2>1. /\ UNCHANGED <<backend, store, file, writers>>
        /\ \A q \in Paper : mirror'[q] \subseteq mirror[q]
    BY <1>1 DEF DeleteRow, graphVars, Typed, TypeOK
  <2>2. QED
    BY <2>1 DEF FileIsKept, RestartKeepsGraph
<1>2. ASSUME NEW w \in Process, NEW p \in Paper, RemovePaper(w, p)
      PROVE  FileIsKept'
  <2>1. PICK g \in Graph :
          /\ store' = [store EXCEPT ![StoreOf(w)] = g]
          /\ Exact(g) /\ Opened(w).nodes \ {PaperNode(p)} \subseteq g.nodes
          /\ \/ Write(w, g)
             \/ g = Opened(w) /\ UNCHANGED <<file, writers>>
    BY <1>2, PaperIsRemoved
  <2>2. backend' = backend /\ \A q \in Paper : mirror'[q] \subseteq mirror[q]
    BY <1>2 DEF RemovePaper, Typed, TypeOK
  <2>3. Opened(w).nodes \cap Entities \subseteq g.nodes
    BY <2>1, PaperIsNoEntity
  <2>4. CASE Write(w, g)
    BY <2>1, <2>2, <2>3, <2>4, WriteKeepsFile
  <2>5. CASE g = Opened(w) /\ UNCHANGED <<file, writers>>
    BY <2>1, <2>2, <2>5, OpenKeepsFile
  <2>6. QED
    BY <2>1, <2>4, <2>5
<1>3. ASSUME NEW w \in Process, NEW m \in queue, Begin(w, m)
      PROVE  FileIsKept'
  BY <1>3, OpenKeepsFile DEF Begin
<1>4. ASSUME NEW w \in Process, WriteNodes(w)
      PROVE  FileIsKept'
  <2>1. PICK g \in Graph : Write(w, g) /\ Exact(g) /\ store[StoreOf(w)].nodes \subseteq g.nodes
    BY <1>4, NodesAreWritten DEF Exact
  <2>2. Opened(w) = store[StoreOf(w)]
    BY <1>4, NodesAreWritten, OpenedIsSound
  <2>3. backend' = backend /\ mirror' = mirror
    BY <1>4 DEF WriteNodes, dataVars
  <2>4. QED
    BY <2>1, <2>2, <2>3, WriteKeepsFile
<1>5. ASSUME NEW w \in Process, WriteEdges(w)
      PROVE  FileIsKept'
  <2>1. PICK g \in Graph : Write(w, g) /\ Exact(g) /\ store[StoreOf(w)].nodes \subseteq g.nodes
    BY <1>5, EdgesAreWritten
  <2>2. Opened(w) = store[StoreOf(w)]
    BY <1>5, EdgesAreWritten, OpenedIsSound
  <2>3. backend' = backend /\ mirror' = mirror
    BY <1>5 DEF WriteEdges, dataVars
  <2>4. QED
    BY <2>1, <2>2, <2>3, WriteKeepsFile
<1>6. ASSUME NEW w \in Process, MirrorCommit(w)
      PROVE  FileIsKept'
  <2>1. /\ UNCHANGED <<backend, store, file, writers>> /\ pc[w] = "commit"
        /\ \/ mirror' = mirror
           \/ mirror' = [mirror EXCEPT ![msg[w].paper] =
                           (mirror[msg[w].paper] \ replaced[w]) \cup text[w]]
    BY <1>6 DEF MirrorCommit, graphVars
  <2>2. /\ text[w] \in SUBSET Entities /\ text[w] \subseteq store[StoreOf(w)].nodes
        /\ store[StoreOf(w)] # NoStore /\ msg[w].paper \in Paper
    BY <2>1 DEF BuildsWork, BuildsAreWritten, Working, Written, Message
  <2>3. backend = "neo4j" => text[w] \subseteq store[Server].nodes
    BY <2>2 DEF StoreOf
  <2>4. /\ backend = "memory" => w \in writers
        /\ backend = "memory" /\ writers \subseteq {w} => text[w] \subseteq file.nodes
    <3>1. backend = "memory" => w \in writers
      BY <2>1 DEF BuildsWork, Working
    <3>2. Opened(w) = store[StoreOf(w)]
      BY <2>2, OpenedIsSound
    <3>3. QED
      BY <2>2, <3>1, <3>2, OpenedIsFile
  <2>5. ASSUME NEW p \in Paper
        PROVE  \/ mirror'[p] \subseteq mirror[p]
               \/ mirror'[p] \subseteq mirror[p] \cup text[w]
    BY <2>1, <2>2 DEF Typed, TypeOK
  <2>6. RestartKeepsGraph'
    BY <2>1 DEF FileIsKept, RestartKeepsGraph
  <2>7. QED
    BY <2>1, <2>2, <2>3, <2>4, <2>5, <2>6 DEF FileIsKept
<1>7. ASSUME NEW w \in Process, Crash(w)
      PROVE  FileIsKept'
  <2>1. store' = [store EXCEPT ![w] = NoStore] /\ UNCHANGED <<backend, mirror, file, writers>>
    BY <1>7 DEF Crash
  <2>2. store'[Server] = store[Server]
    BY <2>1, ServerIsNoProcess DEF Typed, Holder
  <2>3. \A v \in Process : store'[v] # NoStore => store'[v] = store[v]
    BY <2>1 DEF Typed, Holder
  <2>4. QED
    BY <2>1, <2>2, <2>3 DEF FileIsKept, RestartKeepsGraph
<1>8. CASE UNCHANGED <<backend, mirror, store, file, writers>>
  BY <1>8 DEF FileIsKept, RestartKeepsGraph
<1>9. QED
  BY <1>1, <1>2, <1>3, <1>4, <1>5, <1>6, <1>7, <1>8
  DEF Next, vars, dataVars, graphVars, Reparse, ReadCitations, MirrorDelete, Fail, Redeliver

-------------------------------------------------------------------------------
(* The theorems.                                                                 *)

LEMMA KnowledgeInit == Init => KnowledgeInv
<1> SUFFICES ASSUME Init PROVE KnowledgeInv
  OBVIOUS
<1>1. /\ store = [s \in Process \cup {Server} |-> IF s = Server THEN EmptyGraph ELSE NoStore]
      /\ file = [nodes |-> {}, edges |-> {}] /\ Exact(EmptyGraph)
      /\ EmptyGraph.nodes = {} /\ EmptyGraph.edges = {}
  BY EmptyIsExact DEF Init, EmptyGraph
<1>2. /\ store \in [Holder -> Graph \cup {NoStore}] /\ store[Server] = EmptyGraph
      /\ store[Server] # NoStore /\ \A w \in Process : store[w] = NoStore
      /\ \A s \in Holder : store[s] # NoStore => store[s] = EmptyGraph
  BY <1>1, ServerIsNoProcess, KnowledgeAssumption DEF Holder, Exact
<1>3. queue \subseteq Message
  BY KnowledgeAssumption DEF Init, Message
<1>4. /\ file.nodes = {} /\ file.edges = {} /\ DOMAIN store = Process \cup {Server}
      /\ disturbed \in [Process -> BOOLEAN]
  BY <1>1 DEF Init
<1>5. Typed
  BY <1>2, <1>3, <1>4, KnowledgeAssumption
  DEF Init, Typed, TypeOK, Step, Holder
<1>6. StoresAreSound
  BY <1>1, <1>2, <1>4 DEF StoresAreSound
<1>7. BuildsWork /\ BuildsAreWritten
  BY DEF Init, BuildsWork, Working, BuildsAreWritten, Written
<1>8. FileIsKept
  BY <1>2, FS_EmptySet DEF Init, FileIsKept, RestartKeepsGraph
<1>9. QED
  BY <1>5, <1>6, <1>7, <1>8 DEF KnowledgeInv

LEMMA KnowledgeStep == KnowledgeInv /\ [Next]_vars => KnowledgeInv'
BY TypedStep, StoresStep, WorkStep, WrittenStep, FileStep DEF KnowledgeInv

LEMMA KnowledgeInvHolds == Spec => []KnowledgeInv
BY KnowledgeInit, KnowledgeStep, PTL DEF Spec

LEMMA AtMostOneWriter ==
    ASSUME IsFiniteSet(writers), Cardinality(writers) <= 1
    PROVE  writers = {} \/ \E w \in writers : writers \subseteq {w}
<1> SUFFICES ASSUME NEW v \in writers, NEW w \in writers, v # w
             PROVE  FALSE
  OBVIOUS
<1>1. IsFiniteSet({v, w}) /\ Cardinality({v, w}) = 2
  <2>1. IsFiniteSet({w}) /\ Cardinality({w}) = 1
    BY FS_Singleton
  <2>2. IsFiniteSet({w} \cup {v}) /\ Cardinality({w} \cup {v}) = 2
    BY <2>1, FS_AddElement
  <2>3. {w} \cup {v} = {v, w}
    OBVIOUS
  <2>4. QED
    BY <2>2, <2>3
<1>2. Cardinality({v, w}) <= Cardinality(writers)
  BY <1>1, FS_Subset
<1>3. QED
  BY <1>1, <1>2, FS_CardinalityType

-------------------------------------------------------------------------------
(* Searching a graph: the recursions of GraphStore and what their rounds are.    *)

(* One round of the breadth-first search.                                        *)
Round == [frontier : SUBSET Uid, seen : SUBSET Uid]

NextFrontier(g, wanted, r) ==
    (UNION {Adjacent(g, u, wanted) : u \in r.frontier}) \ r.seen

NextRound(g, wanted, r) ==
    [frontier |-> NextFrontier(g, wanted, r),
     seen     |-> r.seen \cup NextFrontier(g, wanted, r)]

IsSearch(f, g, start, depth, wanted) ==
    /\ f \in [0 .. depth -> Round]
    /\ f[0] = [frontier |-> {start}, seen |-> {start}]
    /\ \A d \in 1 .. depth : f[d] = NextRound(g, wanted, f[d - 1])

LEMMA AdjacentTyped ==
    ASSUME NEW g \in Graph, NEW u \in Uid, NEW wanted
    PROVE  Adjacent(g, u, wanted) \subseteq Uid
BY DEF Adjacent, Graph, Edge

LEMMA NextRoundTyped ==
    ASSUME NEW g \in Graph, NEW wanted, NEW r \in Round
    PROVE  NextRound(g, wanted, r) \in Round
<1>1. \A u \in r.frontier : Adjacent(g, u, wanted) \subseteq Uid
  BY AdjacentTyped DEF Round
<1>2. NextFrontier(g, wanted, r) \subseteq Uid
  BY <1>1 DEF NextFrontier
<1>3. QED
  BY <1>2 DEF NextRound, Round

LEMMA NextFrontierIsNew ==
    ASSUME NEW g, NEW wanted, NEW r
    PROVE  /\ NextFrontier(g, wanted, r) \cap r.seen = {}
           /\ \A u \in r.frontier :
                Adjacent(g, u, wanted) \subseteq r.seen \cup NextFrontier(g, wanted, r)
<1> DEFINE reached == UNION {Adjacent(g, u, wanted) : u \in r.frontier}
<1>1. NextFrontier(g, wanted, r) = reached \ r.seen
  BY DEF NextFrontier
<1>2. \A u \in r.frontier : Adjacent(g, u, wanted) \subseteq reached
  OBVIOUS
<1> HIDE DEF reached
<1>3. QED
  BY <1>1, <1>2

LEMMA FrontiersRun ==
    ASSUME NEW g \in Graph, NEW start \in Uid, NEW depth \in Nat, NEW wanted
    PROVE  IsSearch(Frontiers(g, start, depth, wanted), g, start, depth, wanted)
<1> DEFINE first == [frontier |-> {start}, seen |-> {start}]
           F == Frontiers(g, start, depth, wanted)
<1>1. F = CHOOSE f : f = [d \in 0 .. depth |-> IF d = 0 THEN first
                                              ELSE NextRound(g, wanted, f[d - 1])]
  BY DEF Frontiers, NextRound, NextFrontier
<1>2. PICK f : f = [d \in 0 .. depth |-> IF d = 0 THEN first
                                         ELSE NextRound(g, wanted, f[d - 1])]
  <2> DEFINE G == [r \in Round |-> NextRound(g, wanted, r)]
  <2>1. G \in [Round -> Round]
    BY NextRoundTyped
  <2>2. first \in Round
    BY DEF Round
  <2>3. PICK f : IsRecursion(f, depth, Round, first, G)
    <3> HIDE DEF G, first
    <3>1. QED
      BY <2>1, <2>2, RecursionExists
  <2>4. \A d \in 0 .. depth : d # 0 => f[d - 1] \in Round
    BY <2>3 DEF IsRecursion
  <2>5. \A d \in 0 .. depth : f[d] = IF d = 0 THEN first ELSE NextRound(g, wanted, f[d - 1])
    <3> HIDE DEF first
    <3>1. QED
      BY <2>3, <2>4 DEF IsRecursion
  <2>6. f = [d \in 0 .. depth |-> IF d = 0 THEN first ELSE NextRound(g, wanted, f[d - 1])]
    <3> HIDE DEF first
    <3>1. QED
      BY <2>3, <2>5 DEF IsRecursion
  <2>7. QED
    BY <2>6
<1>3. F = [d \in 0 .. depth |-> IF d = 0 THEN first ELSE NextRound(g, wanted, F[d - 1])]
  <2> HIDE DEF first
  <2>1. QED
    BY <1>1, <1>2
<1> HIDE DEF F
<1>4. F[0] = first /\ \A d \in 1 .. depth : F[d] = NextRound(g, wanted, F[d - 1])
  <2> HIDE DEF first
  <2>1. QED
    BY <1>3
<1>5. \A d \in 0 .. depth : F[d] \in Round
  <2> DEFINE T == {d \in 0 .. depth : F[d] \in Round}
  <2>1. 0 \in T
    BY <1>4 DEF Round
  <2>2. ASSUME NEW d \in 1 .. depth, d - 1 \in T PROVE d \in T
    BY <1>4, <2>2, NextRoundTyped
  <2> HIDE DEF T
  <2>3. \A d \in 0 .. depth : d \in T
    BY <2>1, <2>2, InductionTo
  <2>4. QED
    BY <2>3 DEF T
<1>6. F \in [0 .. depth -> Round]
  BY <1>3, <1>5
<1>7. QED
  BY <1>4, <1>6 DEF IsSearch, F

(* The trails of the database, one relationship longer.                          *)
Trail == [at : Uid, used : SUBSET Edge]

Longer(g, wanted, t) ==
    {[at |-> IF e.start = t.at THEN e.end ELSE e.start, used |-> t.used \cup {e}] :
       e \in {d \in g.edges \ t.used : Followed(d, wanted) /\ t.at \in {d.start, d.end}}}

NextTrails(g, wanted, S) == UNION {Longer(g, wanted, t) : t \in S}

IsTrails(f, g, start, depth, wanted) ==
    /\ f \in [0 .. depth -> SUBSET Trail]
    /\ f[0] = {[at |-> start, used |-> {}]}
    /\ \A d \in 1 .. depth : f[d] = NextTrails(g, wanted, f[d - 1])

LEMMA NextTrailsTyped ==
    ASSUME NEW g \in Graph, NEW wanted, NEW S \in SUBSET Trail
    PROVE  NextTrails(g, wanted, S) \in SUBSET Trail
<1>1. ASSUME NEW t \in S PROVE Longer(g, wanted, t) \subseteq Trail
  <2>1. t.at \in Uid /\ t.used \subseteq Edge
    BY DEF Trail
  <2>2. \A e \in g.edges : e \in Edge /\ e.start \in Uid /\ e.end \in Uid
    BY DEF Graph, Edge
  <2>3. QED
    BY <2>1, <2>2 DEF Longer, Trail
<1>2. QED
  BY <1>1 DEF NextTrails

LEMMA TrailsRun ==
    ASSUME NEW g \in Graph, NEW start \in g.nodes, NEW depth \in Nat, NEW wanted
    PROVE  \E f : /\ IsTrails(f, g, start, depth, wanted)
                  /\ TrailRows(g, start, depth, wanted) =
                       UNION {{[node |-> t.at, distance |-> d] : t \in f[d]} : d \in 1 .. depth}
<1> DEFINE first == {[at |-> start, used |-> {}]}
           F == CHOOSE f : f = [d \in 0 .. depth |-> IF d = 0 THEN first
                                                   ELSE NextTrails(g, wanted, f[d - 1])]
<1>1. TrailRows(g, start, depth, wanted) =
        UNION {{[node |-> t.at, distance |-> d] : t \in F[d]} : d \in 1 .. depth}
  BY DEF TrailRows, NextTrails, Longer
<1>2. first \in SUBSET Trail
  BY DEF Trail, Graph
<1> HIDE DEF first
<1>3. \E f : f = [d \in 0 .. depth |-> IF d = 0 THEN first ELSE NextTrails(g, wanted, f[d - 1])]
  <2> DEFINE G == [S \in SUBSET Trail |-> NextTrails(g, wanted, S)]
  <2>1. G \in [SUBSET Trail -> SUBSET Trail]
    BY NextTrailsTyped
  <2>2. PICK f : IsRecursion(f, depth, SUBSET Trail, first, G)
    <3> HIDE DEF G
    <3>1. QED
      BY <1>2, <2>1, RecursionExists
  <2>3. \A d \in 0 .. depth : d # 0 => f[d - 1] \in SUBSET Trail
    BY <2>2 DEF IsRecursion
  <2>4. \A d \in 0 .. depth : f[d] = IF d = 0 THEN first ELSE NextTrails(g, wanted, f[d - 1])
    BY <2>2, <2>3 DEF IsRecursion
  <2>5. f = [d \in 0 .. depth |-> IF d = 0 THEN first ELSE NextTrails(g, wanted, f[d - 1])]
    BY <2>2, <2>4 DEF IsRecursion
  <2>6. QED
    BY <2>5
<1>4. F = [d \in 0 .. depth |-> IF d = 0 THEN first ELSE NextTrails(g, wanted, F[d - 1])]
  BY <1>3
<1> HIDE DEF F
<1>5. F[0] = first /\ \A d \in 1 .. depth : F[d] = NextTrails(g, wanted, F[d - 1])
  BY <1>4
<1>6. \A d \in 0 .. depth : F[d] \in SUBSET Trail
  <2> DEFINE T == {d \in 0 .. depth : F[d] \in SUBSET Trail}
  <2>1. 0 \in T
    BY <1>2, <1>5
  <2>2. ASSUME NEW d \in 1 .. depth, d - 1 \in T PROVE d \in T
    BY <1>5, <2>2, NextTrailsTyped
  <2> HIDE DEF T
  <2>3. \A d \in 0 .. depth : d \in T
    BY <2>1, <2>2, InductionTo
  <2>4. QED
    BY <2>3 DEF T
<1>7. F \in [0 .. depth -> SUBSET Trail]
  BY <1>4, <1>6
<1>8. IsTrails(F, g, start, depth, wanted)
  BY <1>5, <1>7 DEF IsTrails, first
<1>9. QED
  BY <1>1, <1>8

(* Following an edge in either direction is being adjacent.                      *)
LEMMA AdjacentByEdge ==
    ASSUME NEW g, Exact(g), NEW u \in Uid, NEW wanted
    PROVE  Adjacent(g, u, wanted) =
             {IF e.start = u THEN e.end ELSE e.start :
                e \in {d \in g.edges : Followed(d, wanted) /\ u \in {d.start, d.end}}}
<1>1. g.out[u] = {e \in g.edges : e.start = u} /\ g.in[u] = {e \in g.edges : e.end = u}
  BY DEF Exact
<1>2. QED
  BY <1>1 DEF Adjacent

(* What the rounds of a search have seen: each node in exactly one frontier, and *)
(* its neighbours one round later.                                               *)
LEMMA SearchRounds ==
    ASSUME NEW g \in Graph, NEW start \in Uid, NEW depth \in Nat, NEW wanted,
           NEW f, IsSearch(f, g, start, depth, wanted)
    PROVE  \A d \in 0 .. depth :
             /\ start \in f[d].seen
             /\ f[d].frontier \subseteq f[d].seen
             /\ \A v \in f[d].seen : \E k \in 0 .. d : v \in f[k].frontier
             /\ d > 0 => /\ f[d - 1].seen \subseteq f[d].seen
                         /\ f[d].frontier \cap f[d - 1].seen = {}
                         /\ \A u \in f[d - 1].seen : Adjacent(g, u, wanted) \subseteq f[d].seen
<1> DEFINE Good(d) ==
             /\ start \in f[d].seen
             /\ f[d].frontier \subseteq f[d].seen
             /\ \A v \in f[d].seen : \E k \in 0 .. d : v \in f[k].frontier
             /\ d > 0 => /\ f[d - 1].seen \subseteq f[d].seen
                         /\ f[d].frontier \cap f[d - 1].seen = {}
                         /\ \A u \in f[d - 1].seen : Adjacent(g, u, wanted) \subseteq f[d].seen
           T == {d \in 0 .. depth : Good(d)}
<1>1. f[0].frontier = {start} /\ f[0].seen = {start}
  BY DEF IsSearch
<1>2. 0 \in T
  BY <1>1
<1>3. ASSUME NEW d \in 1 .. depth, d - 1 \in T PROVE d \in T
  <2>1. d \in Nat /\ d \in 0 .. depth /\ d - 1 \in Nat /\ d - 1 \in 0 .. depth /\ d > 0
        /\ d \in 0 .. d /\ 0 .. d - 1 \subseteq 0 .. d
    OBVIOUS
  <2>2. Good(d - 1)
    BY <1>3
  <2> DEFINE next == NextFrontier(g, wanted, f[d - 1])
  <2>3. f[d].frontier = next /\ f[d].seen = f[d - 1].seen \cup next
    <3>1. f[d] = NextRound(g, wanted, f[d - 1])
      BY DEF IsSearch
    <3>2. QED
      BY <3>1 DEF NextRound
  <2>4. next \cap f[d - 1].seen = {}
        /\ \A u \in f[d - 1].frontier : Adjacent(g, u, wanted) \subseteq f[d - 1].seen \cup next
    BY NextFrontierIsNew
  <2> HIDE DEF next
  <2>5. ASSUME NEW u \in f[d - 1].seen PROVE Adjacent(g, u, wanted) \subseteq f[d].seen
    <3>1. CASE u \in f[d - 1].frontier
      BY <2>3, <2>4, <3>1
    <3>2. CASE u \notin f[d - 1].frontier /\ d - 1 = 0
      BY <1>1, <3>2
    <3>3. CASE u \notin f[d - 1].frontier /\ d - 1 > 0
      <4>1. f[d - 1 - 1] \in Round /\ d - 1 \in 1 .. depth
        BY <2>1, <3>3 DEF IsSearch
      <4>2. f[d - 1] = NextRound(g, wanted, f[d - 1 - 1])
        BY <4>1 DEF IsSearch
      <4>3. u \in f[d - 1 - 1].seen
        BY <3>3, <4>2 DEF NextRound
      <4>4. QED
        BY <2>2, <2>3, <3>3, <4>3
    <3>4. QED
      BY <2>1, <3>1, <3>2, <3>3
  <2>6. \A v \in f[d].seen : \E k \in 0 .. d : v \in f[k].frontier
    BY <2>1, <2>2, <2>3
  <2>7. Good(d)
    BY <2>2, <2>3, <2>4, <2>5, <2>6
  <2>8. QED
    BY <2>1, <2>7
<1> HIDE DEF T
<1>4. \A d \in 0 .. depth : d \in T
  BY <1>2, <1>3, InductionTo
<1>5. QED
  BY <1>4 DEF T

(* The end of a trail is seen by the round of its length.                        *)
LEMMA TrailsAreSeen ==
    ASSUME NEW g, Exact(g), NEW start \in g.nodes, NEW depth \in Nat, NEW wanted,
           NEW f, IsSearch(f, g, start, depth, wanted),
           NEW tr, IsTrails(tr, g, start, depth, wanted)
    PROVE  \A d \in 0 .. depth : \A t \in tr[d] : t.at \in f[d].seen
<1> DEFINE T == {d \in 0 .. depth : \A t \in tr[d] : t.at \in f[d].seen}
<1>1. g \in Graph /\ start \in Uid
  BY DEF Exact, Graph
<1>2. 0 \in T
  BY DEF IsSearch, IsTrails
<1>3. ASSUME NEW d \in 1 .. depth, d - 1 \in T PROVE d \in T
  <2>1. d \in 0 .. depth /\ d - 1 \in 0 .. depth /\ d > 0
    OBVIOUS
  <2>2. ASSUME NEW t \in tr[d] PROVE t.at \in f[d].seen
    <3>1. tr[d] = NextTrails(g, wanted, tr[d - 1]) /\ tr[d - 1] \in SUBSET Trail
      BY <2>1 DEF IsTrails
    <3>2. PICK s \in tr[d - 1] : t \in Longer(g, wanted, s)
      BY <3>1 DEF NextTrails
    <3>3. s.at \in Uid /\ s.at \in f[d - 1].seen
      BY <1>3, <3>1 DEF Trail
    <3>4. t.at \in Adjacent(g, s.at, wanted)
      BY <3>2, <3>3, AdjacentByEdge DEF Longer
    <3>5. Adjacent(g, s.at, wanted) \subseteq f[d].seen
      BY <1>1, <2>1, <3>3, SearchRounds
    <3>6. QED
      BY <3>4, <3>5
  <2>3. QED
    BY <2>1, <2>2
<1> HIDE DEF T
<1>4. \A d \in 0 .. depth : d \in T
  BY <1>2, <1>3, InductionTo
<1>5. QED
  BY <1>4 DEF T

(* A node of a frontier ends a trail as long as the rounds before it, which used *)
(* only edges between nodes already seen: the edge to a new node is fresh.       *)
LEMMA FrontiersAreReached ==
    ASSUME NEW g, Exact(g), NEW start \in g.nodes, NEW depth \in Nat, NEW wanted,
           NEW f, IsSearch(f, g, start, depth, wanted),
           NEW tr, IsTrails(tr, g, start, depth, wanted)
    PROVE  \A d \in 0 .. depth : \A v \in f[d].frontier : \E t \in tr[d] : t.at = v
<1> DEFINE Reach(d) == \A v \in f[d].frontier :
                         \E t \in tr[d] : t.at = v /\ Ends(t.used) \subseteq f[d].seen
           T == {d \in 0 .. depth : Reach(d)}
<1>1. g \in Graph /\ start \in Uid
  BY DEF Exact, Graph
<1>2. 0 \in T
  <2>1. f[0].frontier = {start} /\ tr[0] = {[at |-> start, used |-> {}]}
    BY DEF IsSearch, IsTrails
  <2>2. Ends({}) = {}
    BY DEF Ends
  <2>3. Reach(0)
    BY <2>1, <2>2
  <2>4. QED
    BY <2>3
<1>3. ASSUME NEW d \in 1 .. depth, d - 1 \in T PROVE d \in T
  <2>1. d \in 0 .. depth /\ d - 1 \in 0 .. depth /\ d > 0
    OBVIOUS
  <2>2. tr[d] = NextTrails(g, wanted, tr[d - 1]) /\ tr[d - 1] \in SUBSET Trail
        /\ f[d - 1] \in Round /\ f[d] = NextRound(g, wanted, f[d - 1])
    BY <2>1 DEF IsTrails, IsSearch
  <2>3. f[d - 1].seen \subseteq f[d].seen /\ f[d].frontier \subseteq f[d].seen
        /\ f[d].frontier \cap f[d - 1].seen = {} /\ f[d - 1].frontier \subseteq f[d - 1].seen
    BY <1>1, <2>1, SearchRounds
  <2>4. ASSUME NEW v \in f[d].frontier
        PROVE  \E t \in tr[d] : t.at = v /\ Ends(t.used) \subseteq f[d].seen
    <3>1. v \in NextFrontier(g, wanted, f[d - 1])
      BY <2>2 DEF NextRound
    <3>2. PICK u \in f[d - 1].frontier : v \in Adjacent(g, u, wanted)
      BY <3>1 DEF NextFrontier
    <3>3. u \in Uid /\ u \in f[d - 1].seen /\ v \notin f[d - 1].seen
      BY <2>2, <2>3 DEF Round
    <3>4. PICK e \in g.edges : /\ Followed(e, wanted) /\ u \in {e.start, e.end}
                               /\ v = IF e.start = u THEN e.end ELSE e.start
      BY <3>2, <3>3, AdjacentByEdge
    <3>5. PICK s \in tr[d - 1] : s.at = u /\ Ends(s.used) \subseteq f[d - 1].seen
      BY <1>3
    <3>6. e \notin s.used
      BY <3>3, <3>4, <3>5 DEF Ends
    <3> DEFINE t == [at |-> v, used |-> s.used \cup {e}]
    <3>7. t \in Longer(g, wanted, s)
      BY <3>4, <3>5, <3>6 DEF Longer
    <3>8. t \in tr[d]
      <4> HIDE DEF t
      <4>1. QED
        BY <2>2, <3>7 DEF NextTrails
    <3>9. Ends(t.used) \subseteq f[d].seen
      <4>1. Ends(t.used) = Ends(s.used) \cup {e.start, e.end}
        BY DEF Ends
      <4>2. {e.start, e.end} = {u, v}
        BY <3>4
      <4>3. QED
        BY <2>3, <3>3, <3>5, <4>1, <4>2
    <3>10. t.at = v
      OBVIOUS
    <3> HIDE DEF t
    <3>11. QED
      BY <3>8, <3>9, <3>10
  <2>5. QED
    BY <2>1, <2>4
<1> HIDE DEF T
<1>4. \A d \in 0 .. depth : d \in T
  BY <1>2, <1>3, InductionTo
<1>5. QED
  BY <1>4 DEF T

(* A node is in the frontier of one round only.                                  *)
LEMMA FrontiersAreDisjoint ==
    ASSUME NEW g \in Graph, NEW start \in Uid, NEW depth \in Nat, NEW wanted,
           NEW f, IsSearch(f, g, start, depth, wanted), NEW k \in 0 .. depth
    PROVE  \A d \in 0 .. depth : d > k => f[d].frontier \cap f[k].seen = {}
<1> DEFINE T == {d \in 0 .. depth : d > k => /\ f[k].seen \subseteq f[d - 1].seen
                                             /\ f[d].frontier \cap f[k].seen = {}}
<1>1. 0 \in T
  OBVIOUS
<1>2. ASSUME NEW d \in 1 .. depth, d - 1 \in T PROVE d \in T
  <2>1. d \in Nat /\ d \in 0 .. depth /\ d - 1 \in 0 .. depth /\ d > 0 /\ k \in Nat
    OBVIOUS
  <2>2. f[d].frontier \cap f[d - 1].seen = {}
    BY <2>1, SearchRounds
  <2>3. CASE d - 1 = k
    BY <2>1, <2>2, <2>3
  <2>4. CASE d - 1 > k
    <3>1. f[k].seen \subseteq f[d - 1 - 1].seen
      BY <1>2, <2>4
    <3>2. f[d - 1 - 1].seen \subseteq f[d - 1].seen
      BY <2>1, <2>4, SearchRounds
    <3>3. QED
      BY <2>1, <2>2, <3>1, <3>2
  <2>5. CASE d <= k
    BY <2>1, <2>5
  <2>6. QED
    BY <2>1, <2>3, <2>4, <2>5
<1> HIDE DEF T
<1>3. \A d \in 0 .. depth : d \in T
  BY <1>1, <1>2, InductionTo
<1>4. QED
  BY <1>3 DEF T

(* The search answers, for every node but the start, the shortest of the trails  *)
(* the database would list, at any depth and for any relationship types.         *)
LEMMA SearchIsShortest ==
    ASSUME NEW g, Exact(g), NEW start \in g.nodes, NEW depth \in Nat, NEW wanted
    PROVE  LET rows == {r \in TrailRows(g, start, depth, wanted) : r.node # start} IN
           Neighbors(g, start, depth, wanted) =
             {r \in rows : \A s \in rows : s.node = r.node => r.distance <= s.distance}
<1> DEFINE f == Frontiers(g, start, depth, wanted)
           all == TrailRows(g, start, depth, wanted)
           rows == {r \in all : r.node # start}
           best == {r \in rows : \A s \in rows : s.node = r.node => r.distance <= s.distance}
           near == Neighbors(g, start, depth, wanted)
<1>1. g \in Graph /\ start \in Uid
  BY DEF Exact, Graph
<1>2. IsSearch(f, g, start, depth, wanted)
  BY <1>1, FrontiersRun
<1>3. PICK tr : /\ IsTrails(tr, g, start, depth, wanted)
                /\ all = UNION {{[node |-> t.at, distance |-> d] : t \in tr[d]} : d \in 1 .. depth}
  BY <1>1, TrailsRun
<1>4. near = UNION {{[node |-> u, distance |-> d] : u \in f[d].frontier} : d \in 1 .. depth}
  BY DEF Neighbors
<1> HIDE DEF f, all, near
<1>5. \A r : r \in near <=> \E d \in 1 .. depth : \E u \in f[d].frontier :
                              r = [node |-> u, distance |-> d]
  BY <1>4
<1>6. \A r : r \in all <=> \E d \in 1 .. depth : \E t \in tr[d] :
                             r = [node |-> t.at, distance |-> d]
  BY <1>3
<1>7. /\ \A d \in 0 .. depth : \A t \in tr[d] : t.at \in f[d].seen
      /\ \A d \in 0 .. depth : \A v \in f[d].frontier : \E t \in tr[d] : t.at = v
  BY <1>2, <1>3, TrailsAreSeen, FrontiersAreReached
<1>8. \A d \in 0 .. depth : start \in f[d].seen /\ f[d].frontier \subseteq f[d].seen
                            /\ \A v \in f[d].seen : \E k \in 0 .. d : v \in f[k].frontier
  BY <1>1, <1>2, SearchRounds
<1>9. \A k, d \in 0 .. depth : d > k => f[d].frontier \cap f[k].seen = {}
  BY <1>1, <1>2, FrontiersAreDisjoint
<1>10. f[0].frontier = {start} /\ f[0].seen = {start}
  BY <1>2 DEF IsSearch
<1>11. ASSUME NEW r \in near PROVE r \in best
  <2>1. PICK d \in 1 .. depth : r.distance = d /\ r.node \in f[d].frontier
                                /\ r = [node |-> r.node, distance |-> d]
    BY <1>5
  <2>2. d \in Nat /\ d \in 0 .. depth /\ 0 \in 0 .. depth /\ d > 0
    OBVIOUS
  <2>3. PICK t \in tr[d] : t.at = r.node
    BY <1>7, <2>1, <2>2
  <2>4. r \in all
    BY <1>6, <2>1, <2>3
  <2>5. r.node # start
    BY <1>9, <1>10, <2>1, <2>2
  <2>6. ASSUME NEW s \in rows, s.node = r.node PROVE r.distance <= s.distance
    <3>1. PICK k \in 1 .. depth : \E q \in tr[k] : s = [node |-> q.at, distance |-> k]
      BY <1>6
    <3>2. s.distance = k /\ r.node \in f[k].seen /\ k \in Nat /\ k \in 0 .. depth
      BY <1>7, <2>6, <3>1
    <3>3. ~(d > k)
      BY <1>9, <2>1, <2>2, <3>2
    <3>4. QED
      BY <2>1, <2>2, <3>2, <3>3
  <2>7. QED
    BY <2>4, <2>5, <2>6
<1>12. ASSUME NEW r \in best PROVE r \in near
  <2>1. PICK d \in 1 .. depth : \E t \in tr[d] : r = [node |-> t.at, distance |-> d]
    BY <1>6
  <2>2. d \in Nat /\ d \in 0 .. depth
    OBVIOUS
  <2>3. r.distance = d /\ r.node \in f[d].seen /\ r = [node |-> r.node, distance |-> d]
    BY <1>7, <2>1, <2>2
  <2>4. PICK k \in 0 .. d : r.node \in f[k].frontier
    BY <1>8, <2>2, <2>3
  <2>5. r.node # start
    OBVIOUS
  <2>6. k # 0 /\ k \in 1 .. depth /\ k \in 0 .. depth /\ k \in Nat /\ k <= d
    BY <1>10, <2>2, <2>4, <2>5
  <2>7. PICK t \in tr[k] : t.at = r.node
    BY <1>7, <2>4, <2>6
  <2> DEFINE s == [node |-> t.at, distance |-> k]
  <2>8. s \in all /\ s.node = r.node /\ s.distance = k
    BY <1>6, <2>6, <2>7
  <2>9. s \in rows
    BY <2>5, <2>8
  <2>10. d <= k
    BY <2>3, <2>8, <2>9
  <2>11. r.node \in f[d].frontier
    BY <2>2, <2>4, <2>6, <2>10
  <2>12. QED
    BY <1>5, <2>3, <2>11
<1> HIDE DEF best
<1>13. near = best
  BY <1>11, <1>12
<1>14. QED
  BY <1>13 DEF near, best, all

-------------------------------------------------------------------------------
(* The graph means something after any builds, removals, restarts and faults:    *)
(* the indexes of every store list exactly its edges, no edge hangs loose, every *)
(* edge fits its labels, citations stay in a workspace, no message is put back   *)
(* past its tries, and the breadth-first search finds what the database's        *)
(* shortest paths would be (store.py, schema.py, builder.py, tasks.py).          *)
THEOREM GraphStaysSound == Spec => []GraphIsSound
<1>1. KnowledgeInv => TypeOK /\ IndexesAreExact /\ EdgesFitSchema /\ CitationsStayInside
  BY DEF KnowledgeInv, Typed, StoresAreSound, Exact, GoodEdge, Holder, Stores,
         IndexesAreExact, EdgesFitSchema, CitationsStayInside
<1>2. ASSUME KnowledgeInv PROVE NeighborsAreShortest
  <2>1. \A g \in Stores : Exact(g)
    BY <1>2 DEF KnowledgeInv, StoresAreSound, Stores, Holder
  <2>2. QED
    BY <2>1, SearchIsShortest DEF NeighborsAreShortest
<1>3. KnowledgeInv => GraphIsSound
  BY <1>1, <1>2 DEF GraphIsSound
<1>4. QED
  BY <1>3, KnowledgeInvHolds, PTL

(* What a build has written is there when it comes to its mirror, unless a paper *)
(* was removed meanwhile; no mirrored row names an entity the graph lacks, with  *)
(* the file as long as one process writes it; and a restarted process finds the  *)
(* graph it had (builder.py:98-100, 213-235, store.py:86-125).                   *)
THEOREM BuildsStayKept == Spec => []BuildsAreKept
<1>1. ASSUME KnowledgeInv PROVE BuildIsWhole
  <2> SUFFICES ASSUME NEW w \in Process, pc[w] \in {"delete", "commit"}, ~disturbed[w]
               PROVE  LET g == store[StoreOf(w)]
                          p == msg[w].paper
                      IN /\ ProjectedNodes(p, text[w], cited[w]) \subseteq g.nodes
                         /\ \A m \in text[w] :
                              (m[2] # TitleOf[p] /\ \A n \in text[w] : n[2] = m[2] => n = m) =>
                                 \E e \in g.edges : e.start = PaperNode(p) /\ e.end = m
                         /\ \A q \in cited[w] : \E e \in g.edges :
                              e.type = "CITES" /\ e.start = PaperNode(p) /\ e.end = PaperNode(q)
    BY DEF BuildIsWhole
  <2>1. /\ ProjectedNodes(msg[w].paper, text[w], cited[w]) \subseteq store[StoreOf(w)].nodes
        /\ EdgesOf(w) \subseteq store[StoreOf(w)].edges
    BY <1>1 DEF KnowledgeInv, BuildsAreWritten, Written
  <2>2. msg[w].paper \in Paper /\ text[w] \in SUBSET Entities
    BY <1>1, ProjectionOfBuild DEF KnowledgeInv
  <2>3. ASSUME NEW m \in text[w], m[2] # TitleOf[msg[w].paper],
               \A n \in text[w] : n[2] = m[2] => n = m
        PROVE  \E e \in EdgesOf(w) : e.start = PaperNode(msg[w].paper) /\ e.end = m
    BY <2>2, <2>3, EntityIsLinked DEF EdgesOf
  <2>4. ASSUME NEW q \in cited[w]
        PROVE  \E e \in EdgesOf(w) :
                  /\ e.type = "CITES" /\ e.start = PaperNode(msg[w].paper)
                  /\ e.end = PaperNode(q)
    <3> DEFINE e == [type |-> "CITES", start |-> PaperNode(msg[w].paper), end |-> PaperNode(q)]
    <3>1. e \in EdgesOf(w)
      BY DEF EdgesOf, ProjectedEdges, CitationEdges
    <3>2. QED
      BY <3>1
  <2>5. QED
    BY <2>1, <2>3, <2>4
<1>2. ASSUME KnowledgeInv PROVE MirrorIsBacked
  <2>1. backend = "memory" /\ Cardinality(writers) <= 1 =>
           writers = {} \/ \E w \in writers : writers \subseteq {w}
    BY <1>2, AtMostOneWriter DEF KnowledgeInv, FileIsKept
  <2>2. writers \subseteq Process
    BY <1>2 DEF KnowledgeInv, Typed, TypeOK
  <2>3. QED
    BY <1>2, <2>1, <2>2 DEF KnowledgeInv, FileIsKept, MirrorIsBacked
<1>3. KnowledgeInv => BuildsAreKept
  BY <1>1, <1>2 DEF BuildsAreKept, KnowledgeInv, FileIsKept
<1>4. QED
  BY <1>3, KnowledgeInvHolds, PTL

(* A store keeps what it holds, except that a removal takes one paper's node and *)
(* the edges it is an end of, whatever other builds do (store.py:208-242).       *)
THEOREM OnlyPapersGo == Spec => OnlyThePaperGoes
<1> DEFINE GoneNodes(s) == store[s].nodes \ store'[s].nodes
           GoneEdges(s) == store[s].edges \ store'[s].edges
           Kept(s) == GoneNodes(s) = {} /\ GoneEdges(s) = {}
           Fair(s) ==
             /\ GoneNodes(s) # {} \/ GoneEdges(s) # {} => removals' > removals
             /\ Cardinality(GoneNodes(s)) <= 1
             /\ \A n \in GoneNodes(s) : n[1] = "Paper"
             /\ \A e \in GoneEdges(s) : {e.start, e.end} \cap GoneNodes(s) # {}
<1>1. ASSUME KnowledgeInv, [Next]_vars, NEW s \in Holder, store[s] # NoStore, store'[s] # NoStore
      PROVE  Fair(s)
  <2> USE <1>1 DEF KnowledgeInv
  <2>1. Kept(s) => Fair(s)
    <3>1. Cardinality({}) = 0
      BY FS_EmptySet
    <3>2. QED
      BY <3>1
  <2>2. CASE store'[s] = store[s]
    BY <2>1, <2>2
  <2>3. ASSUME NEW w \in Process, NEW p \in Paper, RemovePaper(w, p)
        PROVE  Fair(s)
    <3>1. PICK g \in Graph :
            /\ store' = [store EXCEPT ![StoreOf(w)] = g]
            /\ Opened(w).nodes \ {PaperNode(p)} \subseteq g.nodes
            /\ g.nodes \subseteq Opened(w).nodes
            /\ \A e \in Opened(w).edges \ g.edges :
                  {e.start, e.end} \cap (Opened(w).nodes \ g.nodes) # {}
      BY <2>3, PaperIsRemoved
    <3>2. CASE s = StoreOf(w)
      <4>1. store'[s] = g /\ Opened(w) = store[s]
        BY <3>1, <3>2, OpenedIsSound DEF Typed
      <4>2. removals' > removals
        BY <2>3 DEF RemovePaper, Typed, TypeOK
      <4>3. GoneNodes(s) \subseteq {PaperNode(p)}
        BY <3>1, <4>1
      <4>4. IsFiniteSet({PaperNode(p)}) /\ Cardinality({PaperNode(p)}) = 1
        BY FS_Singleton
      <4>5. Cardinality(GoneNodes(s)) <= 1
        BY <4>3, <4>4, FS_Subset
      <4>6. PaperNode(p)[1] = "Paper"
        BY DEF PaperNode
      <4>7. QED
        BY <3>1, <4>1, <4>2, <4>3, <4>5, <4>6
    <3>3. CASE s # StoreOf(w)
      BY <2>2, <3>1, <3>3 DEF Typed
    <3>4. QED
      BY <3>2, <3>3
  <2>4. ASSUME NEW w \in Process, NEW m \in queue, Begin(w, m)
        PROVE  Fair(s)
    <3>1. store' = [store EXCEPT ![StoreOf(w)] = Opened(w)]
      BY <2>4 DEF Begin
    <3>2. store'[s] = store[s]
      BY <3>1, OpenedIsSound DEF Typed
    <3>3. QED
      BY <2>2, <3>2
  <2>5. ASSUME NEW w \in Process, WriteNodes(w) \/ WriteEdges(w)
        PROVE  Fair(s)
    <3>1. PICK g \in Graph : /\ Write(w, g)
                             /\ store[StoreOf(w)].nodes \subseteq g.nodes
                             /\ store[StoreOf(w)].edges \subseteq g.edges
      BY <2>5, NodesAreWritten, EdgesAreWritten DEF Exact
    <3>2. store' = [store EXCEPT ![StoreOf(w)] = g]
      BY <3>1 DEF Write
    <3>3. Kept(s)
      BY <3>1, <3>2 DEF Typed
    <3>4. QED
      BY <2>1, <3>3
  <2>6. ASSUME NEW w \in Process, Crash(w)
        PROVE  Fair(s)
    <3>1. store'[s] = store[s]
      BY <2>6 DEF Crash, Typed
    <3>2. QED
      BY <2>2, <3>1
  <2> HIDE DEF Fair, KnowledgeInv
  <2>7. QED
    BY <2>2, <2>3, <2>4, <2>5, <2>6
    DEF Next, vars, graphVars, Reparse, DeleteRow, ReadCitations, MirrorDelete, MirrorCommit,
        Fail, Redeliver
<1>2. ASSUME KnowledgeInv, [Next]_vars
      PROVE  [\A s \in Process \cup {Server} :
                store[s] # NoStore /\ store'[s] # NoStore => Fair(s)]_vars
  BY <1>1, <1>2 DEF Holder
<1>3. QED
  BY <1>2, KnowledgeInvHolds, PTL DEF Spec, OnlyThePaperGoes

-------------------------------------------------------------------------------
(* Embedding calls.                                                              *)

(* The texts and the results of a call, and its record.                          *)
Texts == Batches \cup {<<>>, <<QueryText>>}
TaskName == {"none", "retrieval.passage", "retrieval.query"}
Vectors == {<<>>} \cup {[i \in DOMAIN x[1] |-> <<x[1][i], x[2]>>] : x \in Texts \X TaskName}

CallRecord == [stage : {"unused", "posting", "waiting", "done", "refused", "exhausted"},
               use : {"none", "passage", "query"}, texts : Texts, tries : 0 .. MaxTries,
               original : TaskName, sent : TaskName, result : Vectors]

(* The payload of an instance names the task of the call that uses it, and of    *)
(* passages when none does; what was sent was built from it.                     *)
CallOnTask(c) ==
    /\ calls[c].stage \in {"posting", "waiting"} =>
         /\ calls[c].original = PassageTask
         /\ payload[c] = TaskFor(calls[c].use)
         /\ calls[c].use # "query" => payload[c] = PassageTask
    /\ calls[c].stage = "waiting" => calls[c].sent = TaskFor(calls[c].use)
    /\ calls[c].stage \notin {"posting", "waiting"} => payload[c] = PassageTask

(* What the caller gets, and when it gets nothing.                               *)
CallAnswered(c) ==
    /\ calls[c].stage = "done" =>
         calls[c].result = [i \in DOMAIN calls[c].texts |->
                              <<calls[c].texts[i], TaskFor(calls[c].use)>>]
    /\ calls[c].stage = "exhausted" => calls[c].tries = MaxTries

(* The inductive invariant of the embedding calls.                               *)
EmbeddingsInv ==
    /\ payload \in [Call -> TaskName] /\ calls \in [Call -> CallRecord]
    /\ \A c \in Call : CallOnTask(c) /\ CallAnswered(c)

(* Of n items whose indexes are 1 to n in any order, the one in a place of the   *)
(* reply is the one with that index.                                             *)
LEMMA SmallerIndexes ==
  ASSUME NEW n \in Nat, NEW order \in [1 .. n -> 1 .. n],
         \A i, j \in 1 .. n : i # j => order[i] # order[j], NEW i \in 1 .. n
  PROVE  Cardinality({j \in 1 .. n : order[j] < order[i]}) = order[i] - 1
<1> DEFINE S == {j \in 1 .. n : order[j] < order[i]}
           f == [j \in S |-> order[j]]
<1>1. IsFiniteSet(1 .. n) /\ Cardinality(1 .. n) = n
  BY FS_Interval
<1>2. \A k \in 1 .. n : \E j \in 1 .. n : order[j] = k
  <2>1. order \in Injection(1 .. n, 1 .. n)
    BY DEF Injection, IsInjective
  <2>2. order \in Surjection(1 .. n, 1 .. n)
    BY <1>1, <2>1, FS_Injection
  <2>3. QED
    BY <2>2 DEF Surjection
<1>3. order[i] \in 1 .. n
  OBVIOUS
<1>4. {f[j] : j \in S} = 1 .. order[i] - 1
  <2>1. \A j \in S : f[j] \in 1 .. order[i] - 1
    OBVIOUS
  <2>2. ASSUME NEW k \in 1 .. order[i] - 1 PROVE \E j \in S : f[j] = k
    <3>1. k \in 1 .. n /\ k < order[i]
      BY <1>3
    <3>2. QED
      BY <1>2, <3>1
  <2> HIDE DEF f, S
  <2>3. QED
    BY <2>1, <2>2
<1>5. IsFiniteSet(S)
  BY <1>1, FS_Subset
<1>6. DOMAIN f = S /\ f = [j \in S |-> f[j]]
  OBVIOUS
<1>7. \A j, k \in S : f[j] = f[k] => j = k
  <2>1. \A j, k \in S : order[j] = order[k] => j = k
    OBVIOUS
  <2>2. QED
    BY <2>1
<1> HIDE DEF f, S
<1>8. Cardinality({f[j] : j \in S}) = Cardinality(S)
  BY ONLY <1>5, <1>6, <1>7, ImageIsFinite
<1>9. Cardinality(1 .. order[i] - 1) = order[i] - 1
  <2>1. order[i] - 1 \in Nat
    BY <1>3
  <2>2. QED
    BY <1>3, <2>1, FS_Interval
<1>10. QED
  BY <1>4, <1>8, <1>9 DEF S

(* The items of a reply in the order the service gives them, and the vectors in  *)
(* the order of the texts.                                                       *)
ItemsOf(texts, order, sent) ==
    [i \in DOMAIN order |-> [index |-> order[i], embedding |-> <<texts[order[i]], sent>>]]
VectorsOf(texts, sent) == [i \in DOMAIN texts |-> <<texts[i], sent>>]

LEMMA ReplyIsSorted ==
  ASSUME NEW texts, texts \in Seq(ToSet(texts)), NEW order \in SetToSeqs(DOMAIN texts), NEW sent
  PROVE  ParseReply(ItemsOf(texts, order, sent)) = VectorsOf(texts, sent)
<1> DEFINE n == Len(texts)
           items == ItemsOf(texts, order, sent)
           Smaller(i) == {j \in DOMAIN items : items[j].index < items[i].index}
           ItemAt(place) == CHOOSE i \in DOMAIN items : Cardinality(Smaller(i)) = place - 1
<1>1. n \in Nat /\ DOMAIN texts = 1 .. n /\ Cardinality(1 .. n) = n
  <2>1. n \in Nat /\ DOMAIN texts = 1 .. n
    OBVIOUS
  <2> HIDE DEF n
  <2>2. QED
    BY <2>1, FS_Interval
<1> HIDE DEF n
<1>2. order \in [1 .. n -> 1 .. n] /\ \A i, j \in 1 .. n : i # j => order[i] # order[j]
  BY <1>1 DEF SetToSeqs
<1>3. DOMAIN items = 1 .. n
  BY <1>2 DEF ItemsOf
<1>4. /\ \A i \in 1 .. n : items[i].index = order[i] /\ items[i].embedding = <<texts[order[i]], sent>>
  BY <1>2 DEF ItemsOf
<1>5. ASSUME NEW i \in 1 .. n PROVE Cardinality(Smaller(i)) = order[i] - 1
  <2>1. Smaller(i) = {j \in 1 .. n : order[j] < order[i]}
    BY <1>3, <1>4
  <2>2. QED
    BY <1>1, <1>2, <2>1, SmallerIndexes
<1>6. \A k \in 1 .. n : \E j \in 1 .. n : order[j] = k
  <2>1. order \in Injection(1 .. n, 1 .. n)
    BY <1>2 DEF Injection, IsInjective
  <2>2. IsFiniteSet(1 .. n)
    BY <1>1, FS_Interval
  <2>3. order \in Surjection(1 .. n, 1 .. n)
    BY <1>1, <2>1, <2>2, FS_Injection
  <2>4. QED
    BY <2>3 DEF Surjection
<1> HIDE DEF Smaller
<1>7. ASSUME NEW place \in 1 .. n PROVE items[ItemAt(place)].embedding = <<texts[place], sent>>
  <2>1. PICK i \in 1 .. n : order[i] = place
    BY <1>6
  <2>2. Cardinality(Smaller(i)) = place - 1 /\ i \in DOMAIN items
    BY <1>3, <1>5, <2>1
  <2>3. ItemAt(place) \in DOMAIN items /\ Cardinality(Smaller(ItemAt(place))) = place - 1
    BY <2>2
  <2> HIDE DEF ItemAt
  <2>4. order[ItemAt(place)] - 1 = place - 1 /\ ItemAt(place) \in 1 .. n
    BY <1>3, <1>5, <2>3
  <2>5. order[ItemAt(place)] = place
    BY <1>2, <2>4
  <2> HIDE DEF items
  <2>6. QED
    BY <1>4, <2>4, <2>5
<1>8. ParseReply(items) = [place \in DOMAIN items |-> items[ItemAt(place)].embedding]
  BY DEF ParseReply, Smaller
<1> HIDE DEF items, ItemAt
<1>9. ParseReply(items) = [place \in 1 .. n |-> <<texts[place], sent>>]
  BY <1>3, <1>7, <1>8
<1>10. QED
  BY <1>1, <1>9 DEF items, VectorsOf

LEMMA TasksAreNamed ==
  /\ PassageTask \in TaskName /\ QueryTask \in TaskName
  /\ \A use : TaskFor(use) \in TaskName
BY DEF TaskName, PassageTask, QueryTask, TaskFor

LEMMA TextsAreSequences == \A texts \in Texts : texts \in Seq(ToSet(texts))
<1>1. <<>> \in Seq(ToSet(<<>>)) /\ <<QueryText>> \in Seq(ToSet(<<QueryText>>))
  BY DEF ToSet
<1>2. QED
  BY <1>1, EmbeddingsAssumption DEF Texts

LEMMA EmbeddingsInitially == ASSUME EmbeddingsInit PROVE EmbeddingsInv
<1> DEFINE unused == [stage |-> "unused", use |-> "none", texts |-> <<>>, tries |-> 0,
                      original |-> "none", sent |-> "none", result |-> <<>>]
<1>1. /\ payload = [c \in Call |-> PassageTask] /\ calls = [c \in Call |-> unused]
  BY DEF EmbeddingsInit
<1>2. unused \in CallRecord /\ unused.stage = "unused"
  BY EmbeddingsAssumption DEF CallRecord, Texts, TaskName, Vectors
<1> HIDE DEF unused
<1>3. QED
  BY <1>1, <1>2, TasksAreNamed DEF EmbeddingsInv, CallOnTask, CallAnswered

(* The class names the same tasks as long as the settings stay.                  *)
LEMMA TasksAreFixed ==
  ASSUME UNCHANGED vendor
  PROVE  PassageTask' = PassageTask /\ QueryTask' = QueryTask
         /\ \A use : TaskFor(use)' = TaskFor(use)
BY DEF PassageTask, QueryTask, TaskFor

(* A step of one call writes its own record and the payload of its own instance. *)
LEMMA EmbeddingsCallKeeps ==
  ASSUME EmbeddingsInv, UNCHANGED vendor, NEW c \in Call, NEW new \in CallRecord,
         NEW task \in TaskName,
         calls' = [calls EXCEPT ![c] = new], payload' = [payload EXCEPT ![c] = task],
         new.stage \in {"posting", "waiting"} =>
           new.original = PassageTask /\ task = TaskFor(new.use)
           /\ (new.use # "query" => task = PassageTask),
         new.stage = "waiting" => new.sent = TaskFor(new.use),
         new.stage \notin {"posting", "waiting"} => task = PassageTask,
         new.stage = "done" =>
           new.result = [i \in DOMAIN new.texts |-> <<new.texts[i], TaskFor(new.use)>>],
         new.stage = "exhausted" => new.tries = MaxTries
  PROVE  EmbeddingsInv'
<1>1. /\ payload' \in [Call -> TaskName] /\ calls' \in [Call -> CallRecord]
      /\ calls'[c] = new /\ payload'[c] = task
      /\ \A d \in Call : d # c => calls'[d] = calls[d] /\ payload'[d] = payload[d]
  BY DEF EmbeddingsInv
<1>2. ASSUME NEW d \in Call, d # c PROVE (CallOnTask(d) /\ CallAnswered(d))'
  <2>1. calls'[d] = calls[d] /\ payload'[d] = payload[d]
    BY <1>1, <1>2
  <2>2. CallOnTask(d) /\ CallAnswered(d)
    BY DEF EmbeddingsInv
  <2>3. QED
    BY <2>1, <2>2, TasksAreFixed DEF CallOnTask, CallAnswered
<1>3. (CallOnTask(c) /\ CallAnswered(c))'
  BY <1>1, TasksAreFixed DEF CallOnTask, CallAnswered
<1>4. QED
  BY <1>1, <1>2, <1>3 DEF EmbeddingsInv

LEMMA EmbedDocumentsKeeps ==
  ASSUME EmbeddingsInv, NEW c \in Call, NEW texts \in Batches, EmbedDocuments(c, texts)
  PROVE  EmbeddingsInv'
<1> DEFINE new == [stage |-> "posting", use |-> "passage", texts |-> texts, tries |-> 1,
                   original |-> PassageTask, sent |-> "none", result |-> <<>>]
<1>1. payload[c] = PassageTask /\ payload' = [payload EXCEPT ![c] = PassageTask] /\ UNCHANGED vendor
  BY DEF EmbeddingsInv, CallOnTask, EmbedDocuments
<1>2. calls' = [calls EXCEPT ![c] = new]
  BY <1>1 DEF EmbedDocuments, Begun, InstanceFor
<1>3. /\ new \in CallRecord /\ new.stage = "posting" /\ new.use = "passage"
      /\ new.original = PassageTask
  BY TasksAreNamed, EmbeddingsAssumption DEF CallRecord, Texts, TaskName, Vectors
<1>4. TaskFor("passage") = PassageTask /\ PassageTask \in TaskName
  BY TasksAreNamed DEF TaskFor
<1> HIDE DEF new
<1>5. QED
  BY <1>1, <1>2, <1>3, <1>4, EmbeddingsCallKeeps

LEMMA EmbedQueryKeeps ==
  ASSUME EmbeddingsInv, NEW c \in Call, EmbedQuery(c)
  PROVE  EmbeddingsInv'
<1> DEFINE new == [stage |-> "posting", use |-> "query", texts |-> <<QueryText>>, tries |-> 1,
                   original |-> PassageTask, sent |-> "none", result |-> <<>>]
<1>1. payload[c] = PassageTask /\ payload' = [payload EXCEPT ![c] = QueryTask] /\ UNCHANGED vendor
  BY DEF EmbeddingsInv, CallOnTask, EmbedQuery, InstanceFor
<1>2. calls' = [calls EXCEPT ![c] = new]
  BY <1>1 DEF EmbedQuery, Begun, InstanceFor
<1>3. /\ new \in CallRecord /\ new.stage = "posting" /\ new.use = "query"
      /\ new.original = PassageTask
  BY TasksAreNamed, EmbeddingsAssumption DEF CallRecord, Texts, TaskName, Vectors
<1>4. TaskFor("query") = QueryTask /\ QueryTask \in TaskName
  BY TasksAreNamed DEF TaskFor
<1> HIDE DEF new
<1>5. QED
  BY <1>1, <1>2, <1>3, <1>4, EmbeddingsCallKeeps

LEMMA PostKeeps ==
  ASSUME EmbeddingsInv, NEW c \in Call, Post(c)
  PROVE  EmbeddingsInv'
<1> DEFINE k == calls[c]
           new == [k EXCEPT !.stage = "waiting", !.sent = payload[c]]
<1>1. /\ k \in CallRecord /\ payload[c] \in TaskName /\ CallOnTask(c) /\ k.stage = "posting"
      /\ payload' = [payload EXCEPT ![c] = payload[c]] /\ UNCHANGED vendor
  BY DEF EmbeddingsInv, Post
<1>2. calls' = [calls EXCEPT ![c] = new]
  BY DEF Post, InstanceFor, EmbeddingsInv
<1>3. /\ new \in CallRecord /\ new.stage = "waiting" /\ new.use = k.use /\ new.sent = payload[c]
      /\ new.original = k.original
  <2> HIDE DEF k
  <2>1. QED
    BY <1>1 DEF CallRecord
<1>4. /\ k.original = PassageTask /\ payload[c] = TaskFor(k.use)
      /\ k.use # "query" => payload[c] = PassageTask
  BY <1>1 DEF CallOnTask
<1> HIDE DEF new, k
<1>5. QED
  BY <1>1, <1>2, <1>3, <1>4, EmbeddingsCallKeeps

(* However a call ends, its instance builds requests for passages again.         *)
LEMMA PayloadIsRestored ==
  ASSUME EmbeddingsInv, NEW c \in Call, calls[c].stage = "waiting"
  PROVE  Restored(c) = [payload EXCEPT ![c] = PassageTask]
<1>1. CASE calls[c].use = "query"
  BY <1>1 DEF Restored, CallOnTask, EmbeddingsInv, InstanceFor
<1>2. CASE calls[c].use # "query"
  <2>1. payload[c] = PassageTask
    BY <1>2 DEF CallOnTask, EmbeddingsInv
  <2>2. QED
    BY <1>2, <2>1 DEF Restored, EmbeddingsInv
<1>3. QED
  BY <1>1, <1>2

LEMMA AnswerKeeps ==
  ASSUME EmbeddingsInv, NEW c \in Call, NEW order \in SetToSeqs(DOMAIN calls[c].texts),
         Answer(c, order)
  PROVE  EmbeddingsInv'
<1> DEFINE k == calls[c]
           vectors == VectorsOf(k.texts, k.sent)
           new == [k EXCEPT !.stage = "done", !.result = vectors]
<1>1. /\ k \in CallRecord /\ CallOnTask(c) /\ k.stage = "waiting" /\ UNCHANGED vendor
      /\ payload' = [payload EXCEPT ![c] = PassageTask]
  BY PayloadIsRestored DEF Answer, EmbeddingsInv
<1>2. k.texts \in Texts /\ k.sent \in TaskName
  <2> HIDE DEF k
  <2>1. QED
    BY <1>1 DEF CallRecord
<1>3. ParseReply(ItemsOf(k.texts, order, k.sent)) = vectors
  <2>1. k.texts \in Seq(ToSet(k.texts)) /\ order \in SetToSeqs(DOMAIN k.texts)
    BY <1>2, TextsAreSequences
  <2> HIDE DEF k
  <2>2. QED
    BY <2>1, ReplyIsSorted
<1>4. calls' = [calls EXCEPT ![c].stage = "done", ![c].result = vectors]
  <2> HIDE DEF vectors
  <2>1. QED
    BY <1>3 DEF Answer, ItemsOf
<1>5. vectors \in Vectors
  <2>1. <<k.texts, k.sent>> \in Texts \X TaskName
    BY <1>2
  <2> HIDE DEF k
  <2>2. QED
    BY <2>1 DEF Vectors, VectorsOf
<1>6. vectors = [i \in DOMAIN k.texts |-> <<k.texts[i], TaskFor(k.use)>>]
  BY <1>1 DEF CallOnTask, VectorsOf
<1> HIDE DEF vectors
<1>7. calls' = [calls EXCEPT ![c] = new]
  BY <1>4 DEF EmbeddingsInv
<1>8. /\ new \in CallRecord /\ new.stage = "done" /\ new.use = k.use /\ new.texts = k.texts
      /\ new.result = vectors
  <2> HIDE DEF k
  <2>1. QED
    BY <1>1, <1>5 DEF CallRecord
<1> HIDE DEF new, k
<1>9. QED
  BY <1>1, <1>6, <1>7, <1>8, TasksAreNamed, EmbeddingsCallKeeps

(* A call that ends without an answer.                                           *)
LEMMA GivingUpKeeps ==
  ASSUME EmbeddingsInv, NEW c \in Call, calls[c].stage = "waiting",
         NEW stage \in {"refused", "exhausted"},
         calls' = [calls EXCEPT ![c].stage = stage], payload' = Restored(c), UNCHANGED vendor,
         stage = "exhausted" => calls[c].tries = MaxTries
  PROVE  EmbeddingsInv'
<1> DEFINE k == calls[c]
           new == [k EXCEPT !.stage = stage]
<1>1. k \in CallRecord /\ payload' = [payload EXCEPT ![c] = PassageTask]
  BY PayloadIsRestored DEF EmbeddingsInv
<1>2. calls' = [calls EXCEPT ![c] = new]
  BY DEF EmbeddingsInv
<1>3. new \in CallRecord /\ new.stage = stage /\ new.tries = k.tries
  <2> HIDE DEF k
  <2>1. QED
    BY <1>1 DEF CallRecord
<1>4. stage = "exhausted" => k.tries = MaxTries
  OBVIOUS
<1>5. /\ new.stage \notin {"posting", "waiting", "done"}
      /\ new.stage = "exhausted" => new.tries = MaxTries
  BY <1>3, <1>4
<1>6. EmbeddingsInv /\ UNCHANGED vendor /\ c \in Call
  OBVIOUS
<1> HIDE DEF new, k
<1>7. QED
  BY ONLY <1>1, <1>2, <1>3, <1>5, <1>6, TasksAreNamed, EmbeddingsCallKeeps

LEMMA TroubleKeeps ==
  ASSUME EmbeddingsInv, NEW c \in Call, Trouble(c)
  PROVE  EmbeddingsInv'
<1> DEFINE k == calls[c]
           new == [k EXCEPT !.stage = "posting", !.tries = k.tries + 1]
<1>1. k \in CallRecord /\ CallOnTask(c) /\ k.stage = "waiting" /\ UNCHANGED vendor
  BY DEF Trouble, EmbeddingsInv
<1>2. k.tries \in 0 .. MaxTries /\ MaxTries \in Nat
  <2> HIDE DEF k
  <2>1. QED
    BY <1>1, EmbeddingsAssumption DEF CallRecord
<1>3. CASE MayRetry(k.tries)
  <2>1. /\ payload' = [payload EXCEPT ![c] = payload[c]] /\ payload[c] \in TaskName
        /\ calls' = [calls EXCEPT ![c] = new]
    BY <1>3 DEF Trouble, EmbeddingsInv
  <2>2. k.tries + 1 \in 0 .. MaxTries
    BY <1>2, <1>3 DEF MayRetry
  <2>3. new \in CallRecord /\ new.stage = "posting" /\ new.use = k.use /\ new.original = k.original
    <3> HIDE DEF k
    <3>1. QED
      BY <1>1, <2>2 DEF CallRecord
  <2>4. /\ k.original = PassageTask /\ payload[c] = TaskFor(k.use)
        /\ k.use # "query" => payload[c] = PassageTask
    BY <1>1 DEF CallOnTask
  <2> HIDE DEF new, k
  <2>5. QED
    BY <1>1, <2>1, <2>3, <2>4, EmbeddingsCallKeeps
<1>4. CASE ~ MayRetry(k.tries)
  <2>1. k.tries = MaxTries
    BY <1>2, <1>4 DEF MayRetry
  <2>2. calls' = [calls EXCEPT ![c].stage = "exhausted"] /\ payload' = Restored(c)
    BY <1>4 DEF Trouble
  <2>3. QED
    BY <1>1, <2>1, <2>2, GivingUpKeeps
<1>5. QED
  BY <1>3, <1>4

LEMMA EmbeddingsStepKeeps ==
  ASSUME EmbeddingsInv, [EmbeddingsNext]_embeddingVars
  PROVE  EmbeddingsInv'
<1>1. ASSUME NEW c \in Call, NEW texts \in Batches, EmbedDocuments(c, texts) PROVE EmbeddingsInv'
  BY <1>1, EmbedDocumentsKeeps
<1>2. ASSUME NEW c \in Call, EmbedQuery(c) PROVE EmbeddingsInv'
  BY <1>2, EmbedQueryKeeps
<1>3. ASSUME NEW c \in Call, Post(c) PROVE EmbeddingsInv'
  BY <1>3, PostKeeps
<1>4. ASSUME NEW c \in Call, NEW order \in SetToSeqs(DOMAIN calls[c].texts), Answer(c, order)
      PROVE  EmbeddingsInv'
  BY <1>4, AnswerKeeps
<1>5. ASSUME NEW c \in Call, Reject(c) PROVE EmbeddingsInv'
  <2>1. /\ calls[c].stage = "waiting" /\ calls' = [calls EXCEPT ![c].stage = "refused"]
        /\ payload' = Restored(c) /\ UNCHANGED vendor
    BY <1>5 DEF Reject
  <2>2. QED
    BY <2>1, GivingUpKeeps
<1>6. ASSUME NEW c \in Call, Trouble(c) PROVE EmbeddingsInv'
  BY <1>6, TroubleKeeps
<1>7. CASE UNCHANGED embeddingVars
  <2>1. UNCHANGED <<vendor, payload, calls>>
    BY <1>7 DEF embeddingVars
  <2>2. QED
    BY <2>1, TasksAreFixed DEF EmbeddingsInv, CallOnTask, CallAnswered
<1>8. QED
  BY <1>1, <1>2, <1>3, <1>4, <1>5, <1>6, <1>7 DEF EmbeddingsNext

(* Every text gets its own vector, computed for its use, whatever calls run side *)
(* by side, in whatever order a reply lists its items and however often the      *)
(* service fails; no call makes more than MAX_RETRIES attempts, and none leaves  *)
(* its instance with the payload of a query (embeddings.py:120-160, 209-222).    *)
THEOREM EmbeddingsStayFit == EmbeddingsSpec => []EmbeddingsFitTheirUse
<1>1. EmbeddingsInit => EmbeddingsInv
  BY EmbeddingsInitially
<1>2. EmbeddingsInv /\ [EmbeddingsNext]_embeddingVars => EmbeddingsInv'
  BY EmbeddingsStepKeeps
<1>3. EmbeddingsInv => EmbeddingsFitTheirUse
  <2>1. ASSUME EmbeddingsInv, NEW c \in Call PROVE calls[c].tries <= MaxTries
    <3> DEFINE k == calls[c]
    <3>1. k \in CallRecord
      BY <2>1 DEF EmbeddingsInv
    <3> HIDE DEF k
    <3>2. k.tries <= MaxTries
      BY <3>1, EmbeddingsAssumption DEF CallRecord
    <3>3. QED
      BY <3>2 DEF k
  <2>2. QED
    BY <2>1 DEF EmbeddingsInv, EmbeddingsFitTheirUse, CallOnTask, CallAnswered, InstanceFor
<1>4. QED
  BY <1>1, <1>2, <1>3, PTL DEF EmbeddingsSpec

---------------------------------------------------------------------------------
(* The stream of a run.                                                         *)

\* How many cells n frames are.
Upto(n) == n * FrameCells

LEMMA FramesAddUp ==
  ASSUME StreamAssumption
  PROVE  /\ FrameCells \in Nat /\ FrameCells >= 3 /\ FrameLength \in Nat /\ FrameCells = FrameLength + 2
         /\ Upto(0) = 0 /\ Upto(1) = FrameCells /\ Upto(2) = FrameCells + FrameCells
         /\ \A n \in Nat : Upto(n) \in Nat
         /\ \A m, n \in Nat : Upto(m + n) = Upto(m) + Upto(n)
         /\ \A m, n \in Nat : m < n => Upto(m) + FrameCells <= Upto(n)
<1>1. FrameCells \in Nat /\ FrameCells >= 3 /\ FrameLength \in Nat /\ FrameCells = FrameLength + 2
  BY DEF StreamAssumption, FrameCells
<1> HIDE DEF FrameCells
<1>2. Upto(0) = 0 /\ Upto(1) = FrameCells /\ Upto(2) = FrameCells + FrameCells
  BY <1>1 DEF Upto
<1>3. \A n \in Nat : Upto(n) \in Nat
  BY <1>1 DEF Upto
<1>4. \A m, n \in Nat : Upto(m + n) = Upto(m) + Upto(n)
  BY <1>1 DEF Upto
<1>5. \A m, n \in Nat : m < n => Upto(m) + FrameCells <= Upto(n)
  <2> SUFFICES ASSUME NEW m \in Nat, NEW n \in Nat, m < n
               PROVE  Upto(m) + FrameCells <= Upto(n)
    OBVIOUS
  <2>1. n - m - 1 \in Nat /\ n = m + (1 + (n - m - 1)) /\ 1 + (n - m - 1) \in Nat
    OBVIOUS
  <2> DEFINE k == n - m - 1
  <2>2. Upto(n) = Upto(m) + Upto(1 + k) /\ Upto(1 + k) = Upto(1) + Upto(k)
    BY <1>4, <2>1
  <2> HIDE DEF k
  <2>3. Upto(k) \in Nat /\ Upto(m) \in Nat
    BY <1>3, <2>1 DEF k
  <2>4. QED
    BY <1>1, <1>2, <2>2, <2>3
<1>6. QED
  BY <1>1, <1>2, <1>3, <1>4, <1>5

\* Every cell is in one frame, at one place of it.
LEMMA CellsHavePlaces ==
  ASSUME StreamAssumption
  PROVE  /\ \A c \in Nat : \E q \in Nat, r \in 0 .. FrameCells - 1 : c = Upto(q) + r
         /\ \A p, q \in Nat : \A r, s \in 0 .. FrameCells - 1 :
              Upto(p) + r = Upto(q) + s => p = q /\ r = s
         /\ \A q \in Nat, r \in 0 .. FrameCells - 1 :
              (Upto(q) + r) \div FrameCells = q /\ (Upto(q) + r) % FrameCells = r
<1> DEFINE W == FrameCells
<1>1. W \in Nat /\ W >= 3
  BY FramesAddUp
<1>2. ASSUME NEW c \in Nat
      PROVE  c \div W \in Nat /\ c % W \in 0 .. W - 1 /\ c = Upto(c \div W) + (c % W)
  <2> HIDE DEF W
  <2>1. c \div W \in Nat /\ c % W \in 0 .. W - 1 /\ c = (c \div W) * W + (c % W)
    BY <1>1
  <2>2. QED
    BY <2>1 DEF Upto, W
<1>3. ASSUME NEW p \in Nat, NEW q \in Nat, NEW r \in 0 .. W - 1, NEW s \in 0 .. W - 1,
             Upto(p) + r = Upto(q) + s
      PROVE  p = q /\ r = s
  <2>1. Upto(p) \in Nat /\ Upto(q) \in Nat /\ (p < q => Upto(p) + W <= Upto(q))
        /\ (q < p => Upto(q) + W <= Upto(p))
    BY FramesAddUp
  <2> HIDE DEF W
  <2>2. ~(p < q) /\ ~(q < p)
    BY <1>1, <1>3, <2>1
  <2>3. QED
    BY <1>1, <1>3, <2>1, <2>2
<1>4. ASSUME NEW q \in Nat, NEW r \in 0 .. W - 1
      PROVE  (Upto(q) + r) \div W = q /\ (Upto(q) + r) % W = r
  <2> DEFINE c == Upto(q) + r
  <2>1. Upto(q) \in Nat
    BY FramesAddUp
  <2>2. c \in Nat
    BY <1>1, <2>1
  <2> HIDE DEF c, W
  <2>3. c \div W \in Nat /\ c % W \in 0 .. W - 1 /\ c = Upto(c \div W) + (c % W)
    BY <1>2, <2>2
  <2>4. QED
    BY <1>3, <2>3 DEF c
<1>5. QED
  BY <1>2, <1>3, <1>4

\* The events of a run of s steps, in their order, and the text of the frame of one.
EventAt(s, j) ==
  IF j <= s THEN Event("step", j) ELSE IF j = s + 1 THEN Event("result", 0) ELSE Event("[DONE]", 0)
Text(e) == SubSeq(Framed(e), 1, FrameLength)

Cells == [event : {"step", "result", "[DONE]", "newline"}, number : Nat, part : Nat]

\* cells begin with the frames of the events after the first d, and are cut anywhere.
Follows(cells, s, d) ==
  \A q \in Nat, r \in 0 .. FrameCells - 1 :
    Upto(q) + r + 1 <= Len(cells) =>
      cells[Upto(q) + r + 1] = Framed(EventAt(s, d + q + 1))[r + 1]

LEMMA FramesHaveCells ==
  ASSUME StreamAssumption, NEW s \in Nat, NEW j \in Nat \ {0}
  PROVE  LET e == EventAt(s, j) IN
         /\ Framed(e) \in Seq(Cells) /\ Len(Framed(e)) = FrameCells
         /\ \A r \in 0 .. FrameCells - 1 : Framed(e)[r + 1] = Newline <=> r >= FrameLength
         /\ \A r \in 0 .. FrameLength - 1 :
              /\ Framed(e)[r + 1].event = e.kind /\ Framed(e)[r + 1].number = e.number
<1> DEFINE e == EventAt(s, j)
<1>1. e.kind \in {"step", "result", "[DONE]"} /\ e.number \in Nat
  BY DEF EventAt, Event
<1>2. FrameCells \in Nat /\ FrameLength \in Nat /\ FrameCells = FrameLength + 2
  BY FramesAddUp
<1> HIDE DEF e
<1>3. \A i \in 1 .. FrameCells : Framed(e)[i] \in Cells
  BY <1>1, <1>2 DEF Framed, Cells, Newline
<1>4. Framed(e) \in Seq(Cells) /\ Len(Framed(e)) = FrameCells
  <2>1. DOMAIN Framed(e) = 1 .. FrameCells /\ Framed(e) = [i \in 1 .. FrameCells |-> Framed(e)[i]]
    BY DEF Framed
  <2>2. QED
    BY <1>2, <1>3, <2>1
<1>5. \A r \in 0 .. FrameCells - 1 : Framed(e)[r + 1] = Newline <=> r >= FrameLength
  <2> SUFFICES ASSUME NEW r \in 0 .. FrameCells - 1
               PROVE  Framed(e)[r + 1] = Newline <=> r >= FrameLength
    OBVIOUS
  <2>1. r + 1 \in 1 .. FrameCells /\ r \in Nat
    BY <1>2
  <2>2. CASE r >= FrameLength
    BY <1>2, <2>1, <2>2 DEF Framed
  <2>3. CASE r < FrameLength
    <3>1. Framed(e)[r + 1].part = r + 1
      BY <1>2, <2>1, <2>3 DEF Framed
    <3>2. Newline.part = 0
      BY DEF Newline
    <3>3. QED
      BY <1>2, <2>1, <2>3, <3>1, <3>2
  <2>4. QED
    BY <1>2, <2>1, <2>2, <2>3
<1>6. \A r \in 0 .. FrameLength - 1 :
        /\ Framed(e)[r + 1].event = e.kind /\ Framed(e)[r + 1].number = e.number
  BY <1>2 DEF Framed
<1>7. QED
  BY <1>4, <1>5, <1>6 DEF e

\* A text is split at the ends of its frames and nowhere else.
LEMMA FramesAreSplit ==
  ASSUME StreamAssumption, NEW s \in Nat, NEW d \in Nat, NEW cells \in Seq(Cells),
         Follows(cells, s, d), NEW n \in Nat, NEW t \in 0 .. FrameCells - 1,
         Len(cells) = Upto(n) + t
  PROVE  Boundaries(cells) = {Upto(k) - 1 : k \in 1 .. n}
<1> DEFINE W == FrameCells
           NL(i) == cells[i] = Newline
<1>1. W \in Nat /\ W >= 3 /\ FrameLength \in Nat /\ W = FrameLength + 2
  BY FramesAddUp
<1>2. Upto(n) \in Nat /\ Len(cells) \in Nat /\ \A q \in Nat : Upto(q) \in Nat /\ Upto(q + 1) = Upto(q) + W
  <2>1. \A q \in Nat : Upto(q) \in Nat
    BY FramesAddUp
  <2>2. Upto(1) = W /\ 1 \in Nat
    BY FramesAddUp
  <2>3. \A q \in Nat : Upto(q + 1) = Upto(q) + Upto(1)
    BY <2>2, FramesAddUp
  <2> HIDE DEF W
  <2>4. \A q \in Nat : Upto(q + 1) = Upto(q) + W
    BY <2>2, <2>3
  <2>5. Len(cells) \in Nat
    OBVIOUS
  <2>6. QED
    BY <2>1, <2>4, <2>5
<1> HIDE DEF W
<1>3. ASSUME NEW q \in Nat, NEW r \in 0 .. W - 1, Upto(q) + r + 1 <= Len(cells)
      PROVE  NL(Upto(q) + r + 1) <=> r >= FrameLength
  <2>1. cells[Upto(q) + r + 1] = Framed(EventAt(s, d + q + 1))[r + 1]
    BY <1>3 DEF Follows, W
  <2>2. d + q + 1 \in Nat \ {0}
    OBVIOUS
  <2>3. Framed(EventAt(s, d + q + 1))[r + 1] = Newline <=> r >= FrameLength
    BY <2>2, FramesHaveCells DEF W
  <2>4. QED
    BY <2>1, <2>3
<1> HIDE DEF NL
<1>4. ASSUME NEW i \in Boundaries(cells) PROVE \E k \in 1 .. n : i = Upto(k) - 1
  <2>1. i \in 1 .. Len(cells) - 1 /\ NL(i) /\ NL(i + 1)
    BY DEF Boundaries, NL
  <2>2. i - 1 \in Nat
    BY <1>2, <2>1
  <2>3. PICK q \in Nat, r \in 0 .. W - 1 : i - 1 = Upto(q) + r
    BY <2>2, CellsHavePlaces DEF W
  <2>4. i = Upto(q) + r + 1 /\ i <= Len(cells) /\ i \in Nat /\ r \in Nat
        /\ Upto(q) \in Nat /\ Upto(q + 1) = Upto(q) + W
    <3>8. Upto(q) \in Nat /\ Upto(q + 1) = Upto(q) + W
      BY <1>2
    <3>9. r \in Nat /\ Len(cells) \in Nat
      BY <1>1
    <3>1. r \in Nat /\ Upto(q) \in Nat /\ Upto(q + 1) = Upto(q) + W /\ Len(cells) \in Nat
      BY <3>8, <3>9
    <3>2. i \in Nat /\ i <= Len(cells) - 1
      BY <2>1, <3>1
    <3> DEFINE l == Len(cells)
               u == Upto(q)
    <3>3. l \in Nat /\ u \in Nat /\ i <= l - 1 /\ i - 1 = u + r
      BY <2>3, <3>1, <3>2
    <3> HIDE DEF l, u
    <3>4. i = u + r + 1 /\ i <= l
      BY <3>1, <3>2, <3>3
    <3>5. QED
      BY <3>1, <3>2, <3>4 DEF l, u
  <2>10. i = Upto(q) + r + 1 /\ r \in Nat /\ Upto(q) \in Nat /\ Upto(q + 1) = Upto(q) + W /\ r <= W - 1
    BY <1>1, <2>4
  <2>5. r >= FrameLength
    BY <1>3, <2>1, <2>4
  <2>6. r # W - 1
    <3> SUFFICES ASSUME r = W - 1 PROVE FALSE
      OBVIOUS
    <3>4. i + 1 = Upto(q + 1) + 0 + 1
      BY ONLY r = W - 1, <1>1, <2>10
    <3>1. i + 1 = Upto(q + 1) + 0 + 1 /\ q + 1 \in Nat /\ i + 1 <= Len(cells) /\ 0 \in 0 .. W - 1
      BY <1>1, <2>1, <2>4, <3>4
    <3>2. 0 >= FrameLength
      BY <1>3, <2>1, <3>1
    <3>3. QED
      BY <1>1, <3>2
  <2>7. i = Upto(q + 1) - 1
    <3> DEFINE u == Upto(q)
               v == Upto(q + 1)
    <3>1. u \in Nat /\ v = u + W /\ i = u + r + 1 /\ W \in Nat /\ W = FrameLength + 2
          /\ FrameLength \in Nat /\ r \in Nat /\ r >= FrameLength /\ r # W - 1 /\ r <= W - 1
      BY <1>1, <2>5, <2>6, <2>10
    <3> HIDE DEF u, v
    <3>2. i = v - 1
      BY ONLY <3>1
    <3>3. QED
      BY <3>2 DEF v
  <2>8. q + 1 <= n
    <3> SUFFICES ASSUME n < q + 1 PROVE FALSE
      OBVIOUS
    <3>1. Upto(n) + W <= Upto(q + 1)
      BY FramesAddUp DEF W
    <3>2. Upto(n) \in Nat /\ t \in Int /\ t <= W - 1 /\ Upto(q + 1) \in Nat
      BY <1>1, <1>2, <2>4 DEF W
    <3>3. Upto(q + 1) <= Upto(n) + t
      <4>1. i + 1 <= Len(cells)
        <5>1. i <= Len(cells) - 1 /\ i \in Nat /\ Len(cells) \in Nat
          BY <2>1, <2>4
        <5>2. QED
          BY <5>1
      <4>2. i + 1 = Upto(q + 1)
        BY <2>7, <3>2
      <4>3. QED
        BY <4>1, <4>2
    <3>4. QED
      BY <1>1, <3>1, <3>2, <3>3
  <2>9. QED
    BY <2>7, <2>8
<1>5. ASSUME NEW k \in 1 .. n PROVE Upto(k) - 1 \in Boundaries(cells)
  <2> DEFINE q == k - 1
  <2>1. q \in Nat /\ k = q + 1 /\ k \in Nat
    OBVIOUS
  <2>2. Upto(k) = Upto(q) + W /\ Upto(q) \in Nat
    BY <1>2, <2>1
  <2>3. Upto(k) <= Upto(n) /\ Upto(n) \in Nat /\ Upto(k) \in Nat
    <3>1. k \in Nat /\ (k = n \/ k < n)
      OBVIOUS
    <3>2. k = n \/ Upto(k) + W <= Upto(n)
      BY <3>1, FramesAddUp DEF W
    <3>3. Upto(n) \in Nat /\ Upto(k) \in Nat
      BY <1>2, <3>1
    <3>4. QED
      BY <1>1, <3>2, <3>3
  <2> HIDE DEF q
  <2>4. t \in Nat
    BY <1>1 DEF W
  <2>5. Upto(k) - 1 \in 1 .. Len(cells) - 1
    <3> DEFINE l == Len(cells)
               u == Upto(q)
               v == Upto(k)
               x == Upto(n)
    <3>1. u \in Nat /\ v \in Nat /\ x \in Nat /\ t \in Nat /\ W \in Nat /\ W >= 3
          /\ l = x + t /\ v = u + W /\ v <= x
      BY <1>1, <2>2, <2>3, <2>4
    <3> HIDE DEF l, u, v, x
    <3>2. v - 1 \in 1 .. l - 1
      BY ONLY <3>1
    <3>3. QED
      BY <3>2 DEF v, l
  <2>6. W - 2 \in 0 .. W - 1 /\ W - 1 \in 0 .. W - 1 /\ W - 2 >= FrameLength /\ W - 1 >= FrameLength
    BY <1>1
  <2>7. Upto(k) - 1 = Upto(q) + (W - 2) + 1 /\ Upto(k) = Upto(q) + (W - 1) + 1
    BY <1>1, <2>2
  <2>8. Upto(k) - 1 <= Len(cells) /\ Upto(k) <= Len(cells)
    <3>1. Upto(k) - 1 <= Len(cells) - 1 /\ Upto(k) \in Nat /\ Len(cells) \in Nat
      BY <1>2, <2>3, <2>5
    <3>2. QED
      BY <3>1
  <2>9. NL(Upto(k) - 1)
    BY <1>3, <2>1, <2>6, <2>7, <2>8
  <2>10. NL(Upto(k))
    BY <1>3, <2>1, <2>6, <2>7, <2>8
  <2>11. Upto(k) - 1 + 1 = Upto(k)
    BY <1>1, <2>2
  <2>12. QED
    BY <2>5, <2>9, <2>10, <2>11 DEF Boundaries, NL
<1>6. QED
  BY <1>4, <1>5

\* The pieces of what follows are the texts of its frames and the cut one at the end.
LEMMA PiecesAreTexts ==
  ASSUME StreamAssumption, NEW s \in Nat, NEW d \in Nat, NEW cells \in Seq(Cells),
         Follows(cells, s, d), NEW n \in Nat, NEW t \in 0 .. FrameCells - 1,
         Len(cells) = Upto(n) + t
  PROVE  /\ Len(Pieces(cells)) = n + 1
         /\ \A k \in 1 .. n : Pieces(cells)[k] = Text(EventAt(s, d + k))
         /\ Remaining(cells) = SubSeq(cells, Upto(n) + 1, Len(cells))
<1> DEFINE g == [k \in 1 .. n |-> Upto(k) - 1]
           ends == Ascending(Boundaries(cells))
           first(k) == IF k = 1 THEN 1 ELSE ends[k - 1] + 2
           last(k) == IF k > Len(ends) THEN Len(cells) ELSE ends[k] - 1
           pieces == Pieces(cells)
<1>1. /\ \A k \in 1 .. n : g[k] \in Int
      /\ \A j, k \in 1 .. n : j < k => g[j] < g[k]
  <2>1. \A k \in Nat : Upto(k) \in Nat
    BY FramesAddUp
  <2>2. FrameCells \in Nat /\ FrameCells >= 3
    BY FramesAddUp
  <2>3. ASSUME NEW k \in 1 .. n PROVE k \in Nat /\ g[k] = Upto(k) - 1 /\ Upto(k) \in Nat
    <3>1. k \in Nat
      OBVIOUS
    <3>2. QED
      BY <2>1, <3>1
  <2> HIDE DEF g
  <2>4. \A k \in 1 .. n : g[k] \in Int
    BY <2>3
  <2>5. ASSUME NEW j \in 1 .. n, NEW k \in 1 .. n, j < k PROVE g[j] < g[k]
    <3>1. Upto(j) + FrameCells <= Upto(k)
      BY <2>5, FramesAddUp
    <3>2. g[j] = Upto(j) - 1 /\ g[k] = Upto(k) - 1 /\ Upto(j) \in Nat /\ Upto(k) \in Nat
      BY <2>3
    <3>3. QED
      BY <2>2, <3>1, <3>2
  <2>6. QED
    BY <2>4, <2>5
<1>2. ends = g
  <2>1. Boundaries(cells) = {g[k] : k \in 1 .. n}
    BY FramesAreSplit
  <2>2. g = [k \in 1 .. n |-> g[k]]
    OBVIOUS
  <2> HIDE DEF g
  <2>3. Ascending(Boundaries(cells)) = [k \in 1 .. n |-> g[k]]
    BY <1>1, <2>1, AscendingLists
  <2>4. QED
    BY <2>2, <2>3
<1>3. Len(ends) = n /\ \A k \in 1 .. n : ends[k] = Upto(k) - 1
  BY <1>2
<1>4. pieces = [k \in 1 .. n + 1 |-> SubSeq(cells, first(k), last(k))]
  BY <1>3 DEF Pieces
<1>5. Len(pieces) = n + 1 /\ n + 1 \in 1 .. n + 1
  BY <1>4
<1>6. ASSUME NEW k \in 1 .. n + 1
      PROVE  first(k) = Upto(k - 1) + 1 /\ last(k) = IF k <= n THEN Upto(k) - 2 ELSE Len(cells)
  <2>1. Upto(0) = 0
    BY FramesAddUp
  <2>2. k = 1 => first(k) = Upto(k - 1) + 1
    BY <2>1
  <2>3. ASSUME k # 1 PROVE first(k) = Upto(k - 1) + 1
    <3>1. k - 1 \in 1 .. n /\ k - 1 \in Nat
      BY <2>3
    <3>2. ends[k - 1] = Upto(k - 1) - 1 /\ Upto(k - 1) \in Nat
      BY <1>3, <3>1, FramesAddUp
    <3> HIDE DEF ends
    <3>3. QED
      BY <2>3, <3>2
  <2>4. ASSUME k <= n PROVE last(k) = Upto(k) - 2
    <3>1. k \in 1 .. n /\ k \in Nat
      BY <2>4
    <3>2. ends[k] = Upto(k) - 1 /\ Upto(k) \in Nat
      BY <1>3, <3>1, FramesAddUp
    <3>3. Len(ends) = n
      BY <1>3
    <3> HIDE DEF ends
    <3>4. QED
      BY <2>4, <3>2, <3>3
  <2>5. ~(k <= n) => last(k) = Len(cells)
    BY <1>3
  <2> HIDE DEF first, last
  <2>6. QED
    BY <2>2, <2>3, <2>4, <2>5
<1>7. Remaining(cells) = SubSeq(cells, Upto(n) + 1, Len(cells))
  <2>1. Remaining(cells) = pieces[n + 1]
    BY <1>5 DEF Remaining, Last
  <2>2. n + 1 - 1 = n /\ ~(n + 1 <= n)
    OBVIOUS
  <2>3. first(n + 1) = Upto(n) + 1 /\ last(n + 1) = Len(cells)
    BY <1>5, <1>6, <2>2
  <2> HIDE DEF first, last, pieces
  <2>4. QED
    BY <1>4, <1>5, <2>1, <2>3
<1>8. ASSUME NEW k \in 1 .. n PROVE pieces[k] = Text(EventAt(s, d + k))
  <2> DEFINE W == FrameCells
             q == k - 1
             e == EventAt(s, d + k)
             u == Upto(q)
             piece == SubSeq(cells, u + 1, u + FrameLength)
  <2>1. k \in 1 .. n + 1 /\ k <= n /\ q \in Nat /\ k = q + 1 /\ d + k \in Nat \ {0} /\ d + q + 1 = d + k
    OBVIOUS
  <2>2. W \in Nat /\ W = FrameLength + 2 /\ FrameLength \in Nat /\ u \in Nat /\ Upto(n) \in Nat
    BY <2>1, FramesAddUp
  <2>3. Upto(k) = u + W /\ (k < n => Upto(k) + W <= Upto(n))
    <3>1. Upto(q + 1) = Upto(q) + Upto(1) /\ Upto(1) = W
      BY <2>1, FramesAddUp
    <3>2. k < n => Upto(k) + W <= Upto(n)
      BY FramesAddUp
    <3>3. QED
      BY <2>1, <3>1, <3>2
  <2>4. pieces[k] = SubSeq(cells, Upto(k - 1) + 1, Upto(k) - 2)
    <3>1. first(k) = Upto(k - 1) + 1 /\ last(k) = Upto(k) - 2
      BY <1>6, <2>1
    <3> HIDE DEF first, last, pieces
    <3>2. QED
      BY <1>4, <2>1, <3>1
  <2> HIDE DEF W, u, pieces
  <2>5. u + FrameLength <= Len(cells) /\ Upto(k) - 2 = u + FrameLength
    <3>1. Upto(k) <= Upto(n)
      BY <2>2, <2>3
    <3>2. t \in Nat
      BY <2>2 DEF W
    <3>3. u + W <= Len(cells)
      BY <2>2, <2>3, <3>1, <3>2
    <3>4. QED
      BY <2>2, <2>3, <3>3
  <2>6. pieces[k] = piece
    BY <2>4, <2>5 DEF u, piece
  <2>7. Framed(e) \in Seq(Cells) /\ Len(Framed(e)) = W
    BY <2>1, FramesHaveCells DEF W
  <2> HIDE DEF q, e
  <2>8. Text(e) \in Seq(Cells) /\ Len(Text(e)) = FrameLength
        /\ \A j \in 1 .. FrameLength : Text(e)[j] = Framed(e)[j]
    BY <2>2, <2>7 DEF Text
  <2>9. piece \in Seq(Cells) /\ Len(piece) = FrameLength
        /\ \A j \in 1 .. FrameLength : piece[j] = cells[u + j]
    BY <2>2, <2>5
  <2>10. ASSUME NEW j \in 1 .. FrameLength PROVE cells[u + j] = Framed(e)[j]
    <3> DEFINE r == j - 1
    <3>1. r \in 0 .. W - 1 /\ j = r + 1 /\ u + j = u + r + 1 /\ u + j <= Len(cells)
      BY <2>2, <2>5
    <3> HIDE DEF r
    <3>2. cells[u + r + 1] = Framed(EventAt(s, d + q + 1))[r + 1]
      BY <2>1, <3>1 DEF Follows, u, W
    <3>3. QED
      BY <2>1, <3>1, <3>2 DEF e
  <2> HIDE DEF piece
  <2>11. piece = Text(e)
    <3>1. \A j \in 1 .. FrameLength : piece[j] = Text(e)[j]
      BY <2>8, <2>9, <2>10
    <3>2. QED
      BY <2>8, <2>9, <3>1
  <2>12. QED
    BY <2>6, <2>11 DEF e
<1>9. QED
  BY <1>5, <1>7, <1>8

\* cells are the frames of the n events after the first d, and t cells of the next.
CutAfter(cells, s, d, n, t) ==
  /\ s \in Nat /\ d \in Nat /\ n \in Nat /\ t \in 0 .. FrameCells - 1
  /\ cells \in Seq(Cells) /\ Follows(cells, s, d) /\ Len(cells) = Upto(n) + t

LEMMA CutRemains ==
  ASSUME StreamAssumption, NEW cells, NEW s, NEW d, NEW n, NEW t, CutAfter(cells, s, d, n, t)
  PROVE  Remaining(cells) = SubSeq(cells, Upto(n) + 1, Len(cells))
<1>1. /\ s \in Nat /\ d \in Nat /\ n \in Nat /\ t \in 0 .. FrameCells - 1
      /\ cells \in Seq(Cells) /\ Follows(cells, s, d) /\ Len(cells) = Upto(n) + t
  BY DEF CutAfter
<1>2. QED
  BY <1>1, PiecesAreTexts

\* The first cell of a text tells the event, and every text but the last parses.
LEMMA TextsTellEvents ==
  ASSUME StreamAssumption, NEW s \in Nat, NEW j \in Nat \ {0}
  PROVE  LET e == EventAt(s, j) IN
         /\ Head(Text(e)).event = e.kind /\ Head(Text(e)).number = e.number
         /\ Event(Head(Text(e)).event, Head(Text(e)).number) = e
<1> DEFINE e == EventAt(s, j)
<1>1. FrameLength \in Nat /\ FrameLength >= 1 /\ FrameCells = FrameLength + 2
  BY DEF StreamAssumption, FrameCells
<1>2. Framed(e) \in Seq(Cells) /\ Len(Framed(e)) = FrameCells
  BY FramesHaveCells
<1>3. 0 \in 0 .. FrameLength - 1 /\ 0 + 1 = 1
  BY <1>1
<1>4. Framed(e)[1].event = e.kind /\ Framed(e)[1].number = e.number
  BY <1>3, FramesHaveCells
<1>5. e = Event(e.kind, e.number)
  BY DEF EventAt, Event
<1> HIDE DEF e
<1>6. Head(Text(e)) = Framed(e)[1]
  BY <1>1, <1>2 DEF Text
<1>7. QED
  BY <1>4, <1>5, <1>6 DEF e

LEMMA TextsParse ==
  ASSUME StreamAssumption, NEW s \in Nat, s <= MaxSteps, NEW j \in Nat \ {0}
  PROVE  Parses(Text(EventAt(s, j))) <=> j <= s + 1
<1>1. MaxSteps \in Nat
  BY DEF StreamAssumption
<1>2. CASE j <= s
  <2> DEFINE e == EventAt(s, j)
  <2>1. EventAt(s, j) = Event("step", j) /\ j \in 1 .. MaxSteps
    BY <1>1, <1>2 DEF EventAt
  <2>2. e \in {Event("result", 0)} \cup {Event("step", i) : i \in 1 .. MaxSteps}
    BY <2>1
  <2> HIDE DEF e
  <2>3. Parses(Text(e))
    BY <2>2 DEF Parses, Text
  <2>4. QED
    BY <1>2, <2>3 DEF e
<1>3. CASE j = s + 1
  <2> DEFINE e == EventAt(s, j)
  <2>1. e \in {Event("result", 0)} \cup {Event("step", i) : i \in 1 .. MaxSteps}
    BY <1>3 DEF EventAt
  <2> HIDE DEF e
  <2>2. Parses(Text(e))
    BY <2>1 DEF Parses, Text
  <2>3. QED
    BY <1>3, <2>2 DEF e
<1>4. CASE j > s + 1
  <2>1. EventAt(s, j) = Event("[DONE]", 0)
    BY <1>4 DEF EventAt
  <2>2. Head(Text(EventAt(s, j))).event = "[DONE]"
    BY <2>1, TextsTellEvents DEF Event
  <2>3. ASSUME Parses(Text(EventAt(s, j))) PROVE FALSE
    <3>1. PICK e \in {Event("result", 0)} \cup {Event("step", i) : i \in 1 .. MaxSteps} :
            Text(EventAt(s, j)) = Text(e)
      BY <2>3 DEF Parses, Text
    <3>2. \E k \in Nat \ {0} : e = EventAt(MaxSteps, k)
      <4>1. MaxSteps + 1 \in Nat \ {0} /\ EventAt(MaxSteps, MaxSteps + 1) = Event("result", 0)
        BY <1>1 DEF EventAt
      <4>2. \A i \in 1 .. MaxSteps : i \in Nat \ {0} /\ EventAt(MaxSteps, i) = Event("step", i)
        BY <1>1 DEF EventAt
      <4>3. QED
        BY <4>1, <4>2
    <3>3. Head(Text(e)).event = e.kind
      BY <1>1, <3>2, TextsTellEvents
    <3>4. e.kind # "[DONE]"
      BY DEF Event
    <3>5. QED
      BY <2>2, <3>1, <3>3, <3>4
  <2>4. QED
    BY <1>4, <2>3
<1>5. QED
  BY <1>2, <1>3, <1>4

\* The h numbers after d, the m events after the first d, and how many of the n
\* numbers after d a bound admits.
Upward(d, h) == [i \in 1 .. h |-> d + i]
EventsAfter(s, d, m) == [i \in 1 .. m |-> EventAt(s, d + i)]
Within(m, n, d, bound) == m \in 0 .. n /\ \A k \in 1 .. n : d + k <= bound <=> k <= m

LEMMA SomeAreWithin ==
  ASSUME NEW n \in Nat, NEW d \in Nat, NEW bound \in Nat
  PROVE  \E m \in Nat : Within(m, n, d, bound)
<1> DEFINE m == IF bound < d THEN 0 ELSE IF d + n <= bound THEN n ELSE bound - d
<1>1. m \in 0 .. n /\ m \in Nat /\ \A k \in 1 .. n : d + k <= bound <=> k <= m
  OBVIOUS
<1> HIDE DEF m
<1>2. QED
  BY <1>1 DEF Within

\* A read parses the events of the frames it completes, [DONE] excepted.
LEMMA EventsAreParsed ==
  ASSUME StreamAssumption, NEW s \in Nat, s <= MaxSteps, NEW d \in Nat, NEW cells \in Seq(Cells),
         Follows(cells, s, d), NEW n \in Nat, NEW t \in 0 .. FrameCells - 1,
         Len(cells) = Upto(n) + t
  PROVE  \E m \in Nat : Within(m, n, d, s + 1) /\ Parsed(cells) = EventsAfter(s, d, m)
<1> DEFINE frames == Pieces(cells)
           good == {k \in 1 .. Len(frames) - 1 : Parses(frames[k])}
           valid == Ascending(good)
<1>1. Len(frames) - 1 = n /\ \A k \in 1 .. n : frames[k] = Text(EventAt(s, d + k))
  BY PiecesAreTexts
<1>2. s + 1 \in Nat
  OBVIOUS
<1>3. PICK m \in Nat : Within(m, n, d, s + 1)
  BY <1>2, SomeAreWithin
<1>12. m \in 0 .. n /\ \A k \in 1 .. n : d + k <= s + 1 <=> k <= m
  BY <1>3 DEF Within
<1>4. \A k \in 1 .. n : Parses(frames[k]) <=> d + k <= s + 1
  <2> SUFFICES ASSUME NEW k \in 1 .. n PROVE Parses(frames[k]) <=> d + k <= s + 1
    OBVIOUS
  <2>1. d + k \in Nat \ {0}
    OBVIOUS
  <2>2. Parses(Text(EventAt(s, d + k))) <=> d + k <= s + 1
    BY <2>1, TextsParse
  <2>3. QED
    BY <1>1, <2>2
<1> HIDE DEF frames
<1>5. good = 1 .. m /\ m \in Nat
  <2>1. good = {k \in 1 .. n : d + k <= s + 1}
    BY <1>1, <1>4
  <2>2. {k \in 1 .. n : d + k <= s + 1} = 1 .. m
    <3>1. ASSUME NEW k \in 1 .. m PROVE k \in 1 .. n /\ d + k <= s + 1
      <4>1. k \in 1 .. n /\ k <= m
        BY <1>12
      <4>2. QED
        BY <1>12, <4>1
    <3>2. ASSUME NEW k \in 1 .. n, d + k <= s + 1 PROVE k \in 1 .. m
      <4>1. k <= m
        BY <1>12, <3>2
      <4>2. QED
        BY <4>1
    <3>3. QED
      BY <3>1, <3>2
  <2>3. QED
    BY <2>1, <2>2
<1> HIDE DEF good
<1>6. valid = [k \in 1 .. m |-> k]
  <2>1. Ascending(1 .. m) = [k \in 1 .. m |-> k]
    BY ONLY <1>5, AscendingCounts
  <2>2. QED
    BY <1>5, <2>1
<1>7. Parsed(cells) = [i \in DOMAIN valid |->
                         Event(Head(frames[valid[i]]).event, Head(frames[valid[i]]).number)]
  BY DEF Parsed, frames, good
<1> HIDE DEF valid
<1>8. DOMAIN valid = 1 .. m /\ \A i \in 1 .. m : valid[i] = i
  BY <1>6
<1>9. ASSUME NEW i \in 1 .. m
      PROVE  Event(Head(frames[valid[i]]).event, Head(frames[valid[i]]).number) = EventAt(s, d + i)
  <2>1. i \in 1 .. n /\ d + i \in Nat \ {0}
    BY <1>12
  <2>2. frames[valid[i]] = Text(EventAt(s, d + i))
    BY <1>1, <1>8, <2>1
  <2>3. QED
    BY <2>1, <2>2, TextsTellEvents
<1>10. Parsed(cells) = EventsAfter(s, d, m)
  BY <1>7, <1>8, <1>9 DEF EventsAfter
<1>11. QED
  BY <1>3, <1>10

LEMMA StepsAreRead ==
  ASSUME NEW s \in Nat, NEW d \in Nat, NEW m \in Nat
  PROVE  \E h \in Nat : Within(h, m, d, s) /\ StepsIn(EventsAfter(s, d, m)) = Upward(d, h)
<1> DEFINE read == EventsAfter(s, d, m)
           steps == Ascending({i \in DOMAIN read : read[i].kind = "step"})
<1>11. PICK h \in Nat : Within(h, m, d, s)
  BY SomeAreWithin
<1>1. h \in 0 .. m /\ \A i \in 1 .. m : d + i <= s <=> i <= h
  BY <1>11 DEF Within
<1>2. \A i \in 1 .. m : /\ read[i].kind = "step" <=> d + i <= s
                        /\ d + i <= s => read[i].number = d + i
  BY DEF EventAt, Event, EventsAfter
<1>3. DOMAIN read = 1 .. m
  BY DEF EventsAfter
<1> HIDE DEF read
<1>4. {i \in DOMAIN read : read[i].kind = "step"} = 1 .. h
  BY <1>1, <1>2, <1>3
<1>5. steps = [k \in 1 .. h |-> k]
  <2>1. h \in Nat
    OBVIOUS
  <2>2. Ascending(1 .. h) = [k \in 1 .. h |-> k]
    BY ONLY <2>1, AscendingCounts
  <2>3. QED
    BY <1>4, <2>2
<1>6. StepsIn(read) = [i \in DOMAIN steps |-> read[steps[i]].number]
  BY DEF StepsIn
<1> HIDE DEF steps
<1>7. DOMAIN steps = 1 .. h /\ \A i \in 1 .. h : steps[i] = i /\ i \in 1 .. m
  BY <1>1, <1>5
<1>8. \A i \in 1 .. h : read[steps[i]].number = d + i
  <2> SUFFICES ASSUME NEW i \in 1 .. h PROVE read[steps[i]].number = d + i
    OBVIOUS
  <2>1. steps[i] = i /\ i \in 1 .. m
    BY <1>7
  <2>2. d + i <= s
    BY <1>1, <2>1
  <2>3. QED
    BY <1>2, <2>1, <2>2
<1>9. StepsIn(read) = Upward(d, h)
  BY <1>6, <1>7, <1>8 DEF Upward
<1>10. QED
  BY <1>9, <1>11 DEF read

LEMMA PlacesAreNumbers ==
  ASSUME StreamAssumption, NEW q \in Nat, NEW r \in 0 .. FrameCells - 1
  PROVE  /\ Upto(q) \in Nat /\ r \in Nat /\ FrameCells \in Nat /\ r < FrameCells
         /\ Upto(q) + r + 1 \in Nat \ {0}
<1>1. Upto(q) \in Nat
  BY FramesAddUp
<1>2. FrameCells \in Nat
  BY FramesAddUp
<1>3. QED
  BY <1>1, <1>2

LEMMA FramesHoldPlaces ==
  ASSUME StreamAssumption, NEW q \in Nat, NEW l \in Nat, NEW r \in 0 .. FrameCells - 1
  PROVE  Upto(q) + r + 1 <= Upto(l) <=> q < l
<1>1. Upto(q) \in Nat /\ Upto(l) \in Nat /\ r \in Nat /\ r < FrameCells /\ FrameCells \in Nat
  <2>1. Upto(l) \in Nat
    BY FramesAddUp
  <2>2. QED
    BY <2>1, PlacesAreNumbers
<1>2. (q < l => Upto(q) + FrameCells <= Upto(l)) /\ (l < q => Upto(l) + FrameCells <= Upto(q))
      /\ (l = q => Upto(l) = Upto(q))
  BY FramesAddUp
<1>3. QED
  BY <1>1, <1>2

LEMMA PlacesBehind ==
  ASSUME StreamAssumption, NEW q \in Nat, NEW n \in Nat, q >= n, NEW r \in 0 .. FrameCells - 1
  PROVE  /\ q - n \in Nat
         /\ Upto(q) + r + 1 = Upto(n) + (Upto(q - n) + r + 1)
         /\ Upto(q) + r + 1 > Upto(n)
<1> DEFINE p == q - n
<1>1. p \in Nat /\ q = n + p
  OBVIOUS
<1> HIDE DEF p
<1>2. Upto(q) = Upto(n) + Upto(p)
  BY <1>1, FramesAddUp
<1>3. Upto(n) \in Nat /\ Upto(p) \in Nat /\ r \in Nat
  BY <1>1, FramesAddUp, PlacesAreNumbers
<1>4. Upto(q) + r + 1 = Upto(n) + (Upto(p) + r + 1) /\ Upto(q) + r + 1 > Upto(n)
  BY <1>2, <1>3
<1>5. QED
  BY <1>1, <1>4 DEF p

\* The frames of the l events after the first d of a run of s steps.
Sends(cells, l, s, d) ==
  cells \in Seq(Cells) /\ Len(cells) = Upto(l) /\ Follows(cells, s, d)

LEMMA FramesOfAll ==
  ASSUME StreamAssumption, NEW s \in Nat, NEW d \in Nat, NEW l \in Nat,
         NEW E, Len(E) = l, \A k \in 1 .. l : E[k] = EventAt(s, d + k)
  PROVE  Sends(FramedAll(E), l, s, d)
<1> DEFINE W == FrameCells
           all == FramedAll(E)
<1>1. W \in Nat /\ W >= 3 /\ Upto(l) \in Nat /\ \A q \in Nat : Upto(q) \in Nat
  BY FramesAddUp
<1>2. Len(E) = l
  OBVIOUS
<1>3. all = [c \in 1 .. Upto(l) |->
               Framed(E[((c - 1) \div W) + 1])[((c - 1) % W) + 1]]
  BY <1>2 DEF FramedAll, Upto
<1> HIDE DEF W
<1>4. ASSUME NEW q \in Nat, NEW r \in 0 .. W - 1, Upto(q) + r + 1 <= Upto(l)
      PROVE  all[Upto(q) + r + 1] = Framed(EventAt(s, d + q + 1))[r + 1] /\ q + 1 \in 1 .. l
  <2> DEFINE u == Upto(q)
             c == u + r + 1
  <2>1. u \in Nat /\ r \in Nat
    BY PlacesAreNumbers DEF W
  <2>2. (u + r) \div W = q /\ (u + r) % W = r
    BY CellsHavePlaces DEF W
  <2> HIDE DEF u
  <2>3. c \in 1 .. Upto(l) /\ c - 1 = u + r
    <3>1. c \in Nat \ {0} /\ Upto(l) \in Nat /\ c <= Upto(l)
      BY <1>1, <1>4, PlacesAreNumbers DEF u, W
    <3>2. c - 1 = u + r
      BY <2>1
    <3> HIDE DEF c
    <3>3. QED
      BY <3>1, <3>2
  <2> HIDE DEF c
  <2>4. all[c] = Framed(E[((c - 1) \div W) + 1])[((c - 1) % W) + 1]
    BY <1>3, <2>3
  <2>5. all[c] = Framed(E[q + 1])[r + 1]
    BY <2>2, <2>3, <2>4
  <2>6. q < l
    BY <1>4, FramesHoldPlaces DEF W
  <2>7. q + 1 \in 1 .. l
    BY <2>6
  <2>8. d + (q + 1) = d + q + 1
    OBVIOUS
  <2>9. E[q + 1] = EventAt(s, d + q + 1)
    BY <2>7, <2>8
  <2>10. QED
    BY <2>5, <2>7, <2>9 DEF c, u
<1>5. ASSUME NEW c \in 1 .. Upto(l) PROVE all[c] \in Cells
  <2>1. c - 1 \in Nat
    OBVIOUS
  <2>2. PICK q \in Nat, r \in 0 .. W - 1 : c - 1 = Upto(q) + r
    BY <2>1, CellsHavePlaces DEF W
  <2>3. c = Upto(q) + r + 1 /\ c <= Upto(l)
    BY <1>1, <2>2
  <2>4. all[c] = Framed(EventAt(s, d + q + 1))[r + 1]
    BY <1>4, <2>3
  <2>5. d + q + 1 \in Nat \ {0}
    OBVIOUS
  <2>6. Framed(EventAt(s, d + q + 1)) \in Seq(Cells) /\ Len(Framed(EventAt(s, d + q + 1))) = W
    BY <2>5, FramesHaveCells DEF W
  <2>7. r + 1 \in 1 .. W
    BY <1>1
  <2>8. QED
    BY <2>4, <2>6, <2>7
<1>6. all \in Seq(Cells) /\ Len(all) = Upto(l)
  <2> DEFINE n == Upto(l)
  <2>1. DOMAIN all = 1 .. n /\ all = [c \in 1 .. n |-> all[c]]
    BY <1>3
  <2>2. n \in Nat /\ \A c \in 1 .. n : all[c] \in Cells
    BY <1>1, <1>5
  <2> HIDE DEF all, n
  <2>3. all \in Seq(Cells) /\ Len(all) = n
    BY ONLY <2>1, <2>2
  <2>4. QED
    BY <2>3 DEF n
<1>7. Follows(all, s, d)
  BY <1>4, <1>6 DEF Follows, W
<1>8. QED
  BY <1>6, <1>7 DEF Sends

\* What follows can grow by whole frames behind whole frames, be cut at its end,
\* and lose whole frames at its beginning.
LEMMA FollowsMore ==
  ASSUME StreamAssumption, NEW s \in Nat, NEW d \in Nat, NEW n \in Nat,
         NEW cells \in Seq(Cells), NEW more \in Seq(Cells),
         Follows(cells, s, d), Len(cells) = Upto(n), Follows(more, s, d + n)
  PROVE  Follows(cells \o more, s, d)
<1> DEFINE W == FrameCells
           both == cells \o more
<1>1. W \in Nat /\ W >= 3 /\ Upto(n) \in Nat /\ \A q \in Nat : Upto(q) \in Nat
  BY FramesAddUp
<1>2. /\ Len(both) = Upto(n) + Len(more) /\ Len(more) \in Nat
      /\ \A i \in 1 .. Len(both) : both[i] = IF i <= Upto(n) THEN cells[i] ELSE more[i - Upto(n)]
  <2>1. cells \in Seq(Cells) /\ more \in Seq(Cells) /\ Len(cells) = Upto(n)
    OBVIOUS
  <2>2. Len(both) = Len(cells) + Len(more) /\ Len(more) \in Nat
    BY ONLY <2>1 DEF both
  <2>3. \A i \in 1 .. Len(cells) + Len(more) :
           both[i] = IF i <= Len(cells) THEN cells[i] ELSE more[i - Len(cells)]
    BY ONLY <2>1 DEF both
  <2>4. QED
    BY ONLY <2>1, <2>2, <2>3
<1> HIDE DEF W, both
<1>3. ASSUME NEW q \in Nat, NEW r \in 0 .. W - 1, Upto(q) + r + 1 <= Len(both)
      PROVE  both[Upto(q) + r + 1] = Framed(EventAt(s, d + q + 1))[r + 1]
  <2> DEFINE c == Upto(q) + r + 1
  <2>1. Upto(q) \in Nat /\ r \in Nat /\ r < W /\ c \in 1 .. Len(both)
    <3>1. Upto(q) \in Nat /\ r \in Nat /\ r < W /\ c \in Nat \ {0}
      BY PlacesAreNumbers DEF W
    <3>2. Upto(n) \in Nat /\ c <= Len(both)
      BY <1>1, <1>3
    <3>3. Len(both) \in Nat
      BY <1>2, <3>2
    <3> HIDE DEF c
    <3>4. QED
      BY <3>1, <3>2, <3>3
  <2>2. CASE q < n
    <3>2. c <= Upto(n)
      BY <2>2, FramesHoldPlaces DEF W
    <3>3. cells[c] = Framed(EventAt(s, d + q + 1))[r + 1]
      BY <3>2 DEF Follows, W
    <3> HIDE DEF c
    <3>4. both[c] = cells[c]
      BY <1>2, <2>1, <3>2
    <3>5. QED
      BY <3>3, <3>4 DEF c
  <2>3. CASE q >= n
    <3> DEFINE p == q - n
    <3>1. d + n + p + 1 = d + q + 1
      BY <2>3
    <3>2. p \in Nat /\ c = Upto(n) + (Upto(p) + r + 1) /\ c > Upto(n)
      BY <2>3, PlacesBehind DEF W
    <3> DEFINE a == Upto(p) + r + 1
    <3> HIDE DEF p, c
    <3>3. a \in Nat
      BY <3>2, PlacesAreNumbers DEF W
    <3>4. a <= Len(more) /\ c - Upto(n) = a
      <4>1. Upto(n) \in Nat /\ Len(more) \in Nat /\ c = Upto(n) + a /\ c <= Upto(n) + Len(more)
        BY <1>1, <1>2, <2>1, <3>2
      <4> HIDE DEF a
      <4>2. QED
        BY <3>3, <4>1
    <3>5. more[a] = Framed(EventAt(s, d + n + p + 1))[r + 1]
      BY <3>2, <3>4 DEF Follows, W
    <3>7. both[c] = more[a]
      <4>1. ~(c <= Upto(n))
        <5> DEFINE u == Upto(n)
                   l == Len(both)
        <5>1. u \in Nat /\ c > u
          BY <1>1, <3>2
        <5>2. l \in Nat
          BY <1>1, <1>2
        <5>3. c \in 1 .. l
          BY <2>1
        <5> HIDE DEF u, l
        <5>4. ~(c <= u)
          BY ONLY <5>1, <5>2, <5>3
        <5>5. QED
          BY <5>4 DEF u
      <4> HIDE DEF a
      <4>2. QED
        BY <1>2, <2>1, <3>4, <4>1
    <3>8. QED
      BY <3>1, <3>5, <3>7 DEF c
  <2>4. QED
    BY <2>2, <2>3
<1>4. QED
  BY <1>3 DEF Follows, W, both

LEMMA FollowsLess ==
  ASSUME StreamAssumption, NEW s \in Nat, NEW d \in Nat, NEW cells \in Seq(Cells),
         Follows(cells, s, d), NEW k \in 0 .. Len(cells)
  PROVE  Follows(SubSeq(cells, 1, k), s, d)
<1> DEFINE part == SubSeq(cells, 1, k)
<1>1. Len(part) = k /\ k <= Len(cells) /\ k \in Nat /\ \A i \in 1 .. k : part[i] = cells[i]
  OBVIOUS
<1> HIDE DEF part
<1>2. ASSUME NEW q \in Nat, NEW r \in 0 .. FrameCells - 1, Upto(q) + r + 1 <= Len(part)
      PROVE  part[Upto(q) + r + 1] = Framed(EventAt(s, d + q + 1))[r + 1]
  <2>1. Upto(q) \in Nat /\ r \in Nat
    BY PlacesAreNumbers
  <2>2. Upto(q) + r + 1 \in 1 .. k /\ Upto(q) + r + 1 <= Len(cells)
    <3> DEFINE l == Len(cells)
    <3>1. l \in Nat /\ k <= l
      BY <1>1
    <3> HIDE DEF l
    <3>2. Upto(q) + r + 1 \in 1 .. k /\ Upto(q) + r + 1 <= l
      BY <1>1, <1>2, <2>1, <3>1
    <3>3. QED
      BY <3>2 DEF l
  <2>3. cells[Upto(q) + r + 1] = Framed(EventAt(s, d + q + 1))[r + 1]
    BY <2>2 DEF Follows
  <2>4. QED
    BY <1>1, <2>2, <2>3
<1>3. QED
  BY <1>2 DEF Follows, part

LEMMA FollowsRest ==
  ASSUME StreamAssumption, NEW s \in Nat, NEW d \in Nat, NEW n \in Nat, NEW cells \in Seq(Cells),
         Follows(cells, s, d), Upto(n) <= Len(cells)
  PROVE  Follows(SubSeq(cells, Upto(n) + 1, Len(cells)), s, d + n)
<1> DEFINE u == Upto(n)
           rest == SubSeq(cells, u + 1, Len(cells))
<1>1. u \in Nat
  BY FramesAddUp
<1> HIDE DEF u
<1>2. u <= Len(cells) /\ Len(cells) \in Nat
  BY DEF u
<1>3. Len(rest) = Len(cells) - u /\ \A i \in 1 .. Len(rest) : rest[i] = cells[u + i]
  BY <1>1, <1>2
<1> HIDE DEF rest
<1>4. ASSUME NEW p \in Nat, NEW r \in 0 .. FrameCells - 1, Upto(p) + r + 1 <= Len(rest)
      PROVE  rest[Upto(p) + r + 1] = Framed(EventAt(s, d + n + p + 1))[r + 1]
  <2> DEFINE q == n + p
  <2>1. q \in Nat /\ d + q + 1 = d + n + p + 1
    OBVIOUS
  <2>2. Upto(q) = u + Upto(p) /\ Upto(p) \in Nat /\ r \in Nat
    <3>1. Upto(p) \in Nat /\ r \in Nat
      BY PlacesAreNumbers
    <3>2. Upto(n + p) = Upto(n) + Upto(p)
      BY FramesAddUp
    <3>3. QED
      BY <3>1, <3>2 DEF u
  <2> HIDE DEF q
  <2>3. Upto(q) + r + 1 = u + (Upto(p) + r + 1) /\ Upto(p) + r + 1 \in 1 .. Len(rest)
        /\ Upto(q) + r + 1 <= Len(cells)
    <3> DEFINE v == Upto(q)
               w == Upto(p)
               l == Len(cells)
               k == Len(rest)
    <3>1. u \in Nat /\ w \in Nat /\ r \in Nat /\ l \in Nat /\ u <= l /\ k = l - u /\ v = u + w
          /\ w + r + 1 <= k
      BY <1>1, <1>2, <1>3, <1>4, <2>2
    <3> HIDE DEF v, w, l, k
    <3>2. v + r + 1 = u + (w + r + 1) /\ w + r + 1 \in 1 .. k /\ v + r + 1 <= l
      BY ONLY <3>1
    <3>3. QED
      BY <3>2 DEF v, w, l, k
  <2>4. cells[Upto(q) + r + 1] = Framed(EventAt(s, d + q + 1))[r + 1]
    BY <2>1, <2>3 DEF Follows
  <2>5. QED
    BY <1>3, <2>1, <2>3, <2>4
<1>5. QED
  BY <1>4 DEF Follows, rest, u

\* While only steps are under way, it makes no difference that there will be more.
LEMMA FollowsLonger ==
  ASSUME StreamAssumption, NEW s \in Nat, NEW d \in Nat, NEW cells \in Seq(Cells),
         Follows(cells, s, d), Upto(d) + Len(cells) = Upto(s)
  PROVE  Follows(cells, s + 1, d)
<1> SUFFICES ASSUME NEW q \in Nat, NEW r \in 0 .. FrameCells - 1, Upto(q) + r + 1 <= Len(cells)
             PROVE  cells[Upto(q) + r + 1] = Framed(EventAt(s + 1, d + q + 1))[r + 1]
  BY DEF Follows
<1> DEFINE l == Len(cells)
<1>1. l \in Nat /\ Upto(d) + l = Upto(s) /\ Upto(q) + r + 1 <= l
  OBVIOUS
<1>2. Upto(d) \in Nat /\ Upto(q) \in Nat /\ Upto(s) \in Nat /\ r \in Nat
      /\ Upto(d + q) = Upto(d) + Upto(q) /\ FrameCells \in Nat
  BY FramesAddUp
<1>3. d + q \in Nat /\ d + q + 1 = (d + q) + 1
  OBVIOUS
<1>4. Upto(d + q) + r + 1 <= Upto(s)
  <2> DEFINE u == Upto(d)
             v == Upto(q)
             x == Upto(s)
             y == Upto(d + q)
  <2>1. u \in Nat /\ v \in Nat /\ x \in Nat /\ r \in Nat /\ l \in Nat /\ y = u + v
        /\ u + l = x /\ v + r + 1 <= l
    BY <1>1, <1>2
  <2> HIDE DEF l, u, v, x, y
  <2>2. y + r + 1 <= x
    BY ONLY <2>1
  <2>3. QED
    BY <2>2 DEF x, y
<1>6. d + q < s
  BY <1>3, <1>4, FramesHoldPlaces
<1>7. EventAt(s + 1, d + q + 1) = EventAt(s, d + q + 1)
  BY <1>6 DEF EventAt
<1>8. QED
  BY <1>7 DEF Follows

Lesser(a, b) == IF a <= b THEN a ELSE b

StreamTyped ==
  /\ run \in [stage : {"none", "requested", "started", "running", "closed", "broken"},
              steps : Nat, emitted : Nat]
  /\ wire \in Seq(Cells) /\ buffer \in Seq(Cells)
  /\ console \in [steps : Seq(Nat), result : BOOLEAN, isRunning : BOOLEAN, error : BOOLEAN, asked : Nat]

\* The frames of the first d events have been read, the others are under way.
ReadUpTo(d) ==
  /\ Follows(buffer \o wire, run.steps, d)
  /\ Len(buffer) < FrameCells
  /\ Upto(d) + Len(buffer) + Len(wire) <= Upto(run.steps + 2)
  /\ run.stage \in {"requested", "started", "running"} =>
       Upto(d) + Len(buffer) + Len(wire) = Upto(run.steps)
  /\ run.stage = "closed" => Upto(d) + Len(buffer) + Len(wire) = Upto(run.steps + 2)
  /\ console.steps = Upward(0, Lesser(d, run.steps))
  /\ console.result <=> d > run.steps

StreamInv ==
  /\ StreamTyped
  /\ run.steps <= MaxSteps /\ run.emitted = run.steps
  /\ run.stage \in {"requested", "started"} => run.steps = 0
  /\ console.isRunning <=> run.stage # "none"
  /\ console.isRunning => ~console.error
  /\ console.isRunning => \E d \in Nat : ReadUpTo(d)
  /\ ~console.isRunning => StreamIsWhole

\* What the console shows of a run that is under way.
LEMMA ShownIsWhole ==
  ASSUME StreamTyped, NEW d \in Nat, ReadUpTo(d)
  PROVE  /\ \A i \in DOMAIN console.steps : console.steps[i] = i
         /\ Len(console.steps) = Lesser(d, run.steps)
         /\ Len(console.steps) <= run.steps
         /\ console.result => Len(console.steps) = run.steps
<1> DEFINE l == Lesser(d, run.steps)
<1>1. run.steps \in Nat
  BY DEF StreamTyped
<1>2. l \in Nat /\ l <= run.steps /\ (d > run.steps => l = run.steps)
  BY <1>1 DEF Lesser
<1>3. console.steps = [i \in 1 .. l |-> i] /\ (console.result <=> d > run.steps)
  BY DEF ReadUpTo, Upward
<1> HIDE DEF l
<1>4. Len(console.steps) = l /\ \A i \in DOMAIN console.steps : console.steps[i] = i
  BY <1>2, <1>3
<1>5. QED
  BY <1>2, <1>3, <1>4 DEF l

LEMMA StreamStarts ==
  ASSUME StreamInit PROVE StreamInv
<1>1. StreamTyped
  BY DEF StreamInit, StreamTyped
<1>2. StreamIsWhole
  BY DEF StreamInit, StreamIsWhole
<1>3. 0 <= MaxSteps
  BY StreamAssumption DEF StreamAssumption
<1>4. QED
  BY <1>1, <1>2, <1>3 DEF StreamInit, StreamInv

LEMMA SubmitKeeps ==
  ASSUME StreamAssumption, StreamInv, Submit PROVE StreamInv'
<1>1. /\ run' = [stage |-> "requested", steps |-> 0, emitted |-> 0] /\ wire' = <<>> /\ buffer' = <<>>
      /\ console' = [console EXCEPT !.isRunning = TRUE, !.steps = <<>>, !.result = FALSE,
                                    !.error = FALSE, !.asked = @ + 1]
  BY DEF Submit, Cleared
<1>2. StreamTyped'
  <2>1. run' \in [stage : {"none", "requested", "started", "running", "closed", "broken"},
                 steps : Nat, emitted : Nat]
    BY <1>1
  <2>2. wire' \in Seq(Cells) /\ buffer' \in Seq(Cells)
    BY <1>1
  <2>3. <<>> \in Seq(Nat)
    OBVIOUS
  <2>4. console' \in [steps : Seq(Nat), result : BOOLEAN, isRunning : BOOLEAN, error : BOOLEAN,
                     asked : Nat]
    <3> DEFINE none == <<>>
    <3>1. console \in [steps : Seq(Nat), result : BOOLEAN, isRunning : BOOLEAN, error : BOOLEAN,
                       asked : Nat]
      BY DEF StreamInv, StreamTyped
    <3>2. console' = [console EXCEPT !.isRunning = TRUE, !.steps = none, !.result = FALSE,
                                     !.error = FALSE, !.asked = @ + 1]
      BY <1>1
    <3>3. none \in Seq(Nat)
      BY <2>3
    <3>4. console.asked + 1 \in Nat
      BY <3>1
    <3> HIDE DEF none
    <3>5. console' = [steps |-> none, result |-> FALSE, isRunning |-> TRUE, error |-> FALSE,
                      asked |-> console.asked + 1]
      BY ONLY <3>1, <3>2
    <3>6. QED
      BY ONLY <3>3, <3>4, <3>5
  <2>5. QED
    BY <2>1, <2>2, <2>4 DEF StreamTyped
<1>3. /\ console'.isRunning = TRUE /\ console'.steps = <<>> /\ console'.result = FALSE
      /\ console'.error = FALSE
  BY <1>1 DEF StreamInv, StreamTyped
<1>4. ReadUpTo(0)'
  <2>1. FrameCells \in Nat /\ FrameCells >= 3 /\ Upto(0) = 0 /\ Upto(2) = FrameCells + FrameCells
    BY FramesAddUp
  <2>2. buffer' \o wire' = <<>> /\ Len(buffer') = 0 /\ Len(wire') = 0 /\ run'.steps = 0
        /\ run'.stage = "requested"
    BY <1>1
  <2>3. Follows(buffer' \o wire', run'.steps, 0)
    <3>1. \A q \in Nat, r \in 0 .. FrameCells - 1 : ~(Upto(q) + r + 1 <= Len(buffer' \o wire'))
      <4> SUFFICES ASSUME NEW q \in Nat, NEW r \in 0 .. FrameCells - 1
                   PROVE  ~(Upto(q) + r + 1 <= 0)
        BY <2>2
      <4>1. Upto(q) + r + 1 \in Nat \ {0}
        BY PlacesAreNumbers
      <4>2. QED
        BY <4>1
    <3>2. QED
      BY <3>1 DEF Follows
  <2>4. Lesser(0, run'.steps) = 0
    BY <2>2 DEF Lesser
  <2>5. console'.steps = Upward(0, 0)
    BY <1>3 DEF Upward
  <2>6. Upto(0) + Len(buffer') + Len(wire') = Upto(run'.steps)
        /\ Upto(0) + Len(buffer') + Len(wire') <= Upto(run'.steps + 2)
    BY <2>1, <2>2
  <2>7. QED
    BY <1>3, <2>1, <2>2, <2>3, <2>4, <2>5, <2>6 DEF ReadUpTo
<1>5. MaxSteps \in Nat
  BY DEF StreamAssumption
<1>6. 0 \in Nat
  OBVIOUS
<1>7. (\E d \in Nat : ReadUpTo(d))'
  BY <1>4, <1>6
<1>8. QED
  BY <1>1, <1>2, <1>3, <1>5, <1>7 DEF StreamInv

LEMMA RespondKeeps ==
  ASSUME StreamAssumption, StreamInv, Respond PROVE StreamInv'
<1>1. /\ run.stage = "requested" /\ run' = [run EXCEPT !.stage = "started"]
      /\ wire' = wire /\ buffer' = buffer /\ console' = console
  BY DEF Respond
<1>2. StreamTyped'
  BY <1>1 DEF StreamInv, StreamTyped
<1>3. run'.stage = "started" /\ run'.steps = run.steps /\ run'.emitted = run.emitted
  BY <1>1 DEF StreamInv, StreamTyped
<1>4. PICK d \in Nat : ReadUpTo(d)
  BY <1>1 DEF StreamInv
<1>5. ReadUpTo(d)'
  BY <1>1, <1>3, <1>4 DEF ReadUpTo
<1>6. QED
  BY <1>1, <1>2, <1>3, <1>5 DEF StreamInv

LEMMA RefuseKeeps ==
  ASSUME StreamAssumption, StreamInv, Refuse PROVE StreamInv'
<1>1. /\ run.stage = "requested" /\ run' = [run EXCEPT !.stage = "none"]
      /\ console' = [console EXCEPT !.isRunning = FALSE, !.error = TRUE]
      /\ wire' = wire /\ buffer' = buffer
  BY DEF Refuse
<1>2. StreamTyped'
  BY <1>1 DEF StreamInv, StreamTyped
<1>3. /\ run'.stage = "none" /\ run'.steps = run.steps /\ run'.emitted = run.emitted
      /\ console'.isRunning = FALSE /\ console'.error = TRUE /\ console'.steps = console.steps
      /\ console'.result = console.result
  BY <1>1 DEF StreamInv, StreamTyped
<1>4. PICK d \in Nat : ReadUpTo(d)
  BY <1>1 DEF StreamInv
<1>5. StreamIsWhole'
  BY <1>3, <1>4, ShownIsWhole DEF StreamIsWhole, StreamInv
<1>6. QED
  BY <1>2, <1>3, <1>5 DEF StreamInv

LEMMA ReadBreakKeeps ==
  ASSUME StreamAssumption, StreamInv, ReadBreak PROVE StreamInv'
<1>1. /\ console.isRunning /\ run' = [run EXCEPT !.stage = "none"]
      /\ console' = [console EXCEPT !.isRunning = FALSE, !.error = TRUE]
      /\ wire' = wire /\ buffer' = buffer
  BY DEF ReadBreak
<1>2. StreamTyped'
  BY <1>1 DEF StreamInv, StreamTyped
<1>3. /\ run'.stage = "none" /\ run'.steps = run.steps /\ run'.emitted = run.emitted
      /\ console'.isRunning = FALSE /\ console'.error = TRUE /\ console'.steps = console.steps
      /\ console'.result = console.result
  BY <1>1 DEF StreamInv, StreamTyped
<1>4. PICK d \in Nat : ReadUpTo(d)
  BY <1>1 DEF StreamInv
<1>5. StreamIsWhole'
  BY <1>3, <1>4, ShownIsWhole DEF StreamIsWhole, StreamInv
<1>6. QED
  BY <1>2, <1>3, <1>5 DEF StreamInv

\* A response that is complete leaves nothing in the buffer: its last frame has been read.
LEMMA ReadEndKeeps ==
  ASSUME StreamAssumption, StreamInv, ReadEnd PROVE StreamInv'
<1>1. /\ console.isRunning /\ run.stage = "closed" /\ wire = <<>>
      /\ run' = [run EXCEPT !.stage = "none"] /\ console' = [console EXCEPT !.isRunning = FALSE]
      /\ wire' = wire /\ buffer' = buffer
  BY DEF ReadEnd
<1>2. StreamTyped'
  BY <1>1 DEF StreamInv, StreamTyped
<1>3. /\ run'.stage = "none" /\ run'.steps = run.steps /\ run'.emitted = run.emitted
      /\ console'.isRunning = FALSE /\ console'.error = console.error /\ console'.steps = console.steps
      /\ console'.result = console.result
  BY <1>1 DEF StreamInv, StreamTyped
<1>4. PICK d \in Nat : ReadUpTo(d)
  BY <1>1 DEF StreamInv
<1>5. console.result /\ d > run.steps
  <2> DEFINE r == Len(buffer)
             s == run.steps
  <2>1. s \in Nat /\ r \in Nat /\ Len(wire) = 0
    BY <1>1 DEF StreamInv, StreamTyped
  <2>2. Upto(d) + r + Len(wire) = Upto(s + 2) /\ r < FrameCells
    BY <1>1, <1>4 DEF ReadUpTo
  <2> HIDE DEF r, s
  <2>3. Upto(d) \in Nat /\ Upto(s + 2) \in Nat /\ FrameCells \in Nat
    <3>1. s + 2 \in Nat
      BY <2>1
    <3>2. QED
      BY <3>1, FramesAddUp
  <2>4. s + 2 \in Nat /\ r \in 0 .. FrameCells - 1 /\ 0 \in 0 .. FrameCells - 1
    BY <2>1, <2>2, <2>3
  <2>5. Upto(d) + r = Upto(s + 2) + 0
    BY <2>1, <2>2, <2>3
  <2>6. d = s + 2
    <3> DEFINE e == s + 2
               o == 0
    <3>1. e \in Nat /\ d \in Nat /\ r \in 0 .. FrameCells - 1 /\ o \in 0 .. FrameCells - 1
          /\ Upto(d) + r = Upto(e) + o
      BY <2>4, <2>5
    <3> HIDE DEF e, o
    <3>2. d = e
      BY <3>1, CellsHavePlaces
    <3>3. QED
      BY <3>2 DEF e
  <2>7. d > s
    BY <2>1, <2>6
  <2>8. QED
    BY <1>4, <2>7 DEF ReadUpTo, s
<1>6. StreamIsWhole'
  BY <1>3, <1>4, <1>5, ShownIsWhole DEF StreamIsWhole, StreamInv
<1>7. QED
  BY <1>1, <1>2, <1>3, <1>6 DEF StreamInv

\* A sequence that is cut in two and put together again.
LEMMA CutInFront ==
  ASSUME NEW b \in Seq(Cells), NEW w \in Seq(Cells), NEW k \in 0 .. Len(w)
  PROVE  /\ SubSeq(w, 1, k) \in Seq(Cells) /\ Len(SubSeq(w, 1, k)) = k
         /\ SubSeq(w, k + 1, Len(w)) \in Seq(Cells) /\ Len(SubSeq(w, k + 1, Len(w))) = Len(w) - k
         /\ Len(b) + k \in 0 .. Len(b \o w) /\ b \o w \in Seq(Cells) /\ Len(b \o w) = Len(b) + Len(w)
         /\ b \o SubSeq(w, 1, k) = SubSeq(b \o w, 1, Len(b) + k)
<1> DEFINE front == SubSeq(w, 1, k)
           both == b \o w
           left == b \o front
           right == SubSeq(both, 1, Len(b) + k)
<1>1. Len(w) \in Nat /\ Len(b) \in Nat /\ k \in Nat /\ k <= Len(w)
  OBVIOUS
<1>2. front \in Seq(Cells) /\ Len(front) = k /\ \A i \in 1 .. k : front[i] = w[i]
  BY <1>1
<1>3. SubSeq(w, k + 1, Len(w)) \in Seq(Cells) /\ Len(SubSeq(w, k + 1, Len(w))) = Len(w) - k
  BY <1>1
<1>4. both \in Seq(Cells) /\ Len(both) = Len(b) + Len(w)
      /\ \A i \in 1 .. Len(both) : both[i] = IF i <= Len(b) THEN b[i] ELSE w[i - Len(b)]
  BY <1>1
<1>5. Len(b) + k \in 0 .. Len(both)
  BY <1>1, <1>4
<1> HIDE DEF front, both
<1>6. left \in Seq(Cells) /\ Len(left) = Len(b) + k
      /\ \A i \in 1 .. Len(left) : left[i] = IF i <= Len(b) THEN b[i] ELSE front[i - Len(b)]
  BY <1>1, <1>2
<1>7. right \in Seq(Cells) /\ Len(right) = Len(b) + k
      /\ \A i \in 1 .. Len(b) + k : right[i] = both[i]
  BY <1>1, <1>4, <1>5
<1> HIDE DEF left, right
<1>8. ASSUME NEW i \in 1 .. Len(b) + k PROVE left[i] = right[i]
  <2>1. i \in 1 .. Len(both) /\ i \in 1 .. Len(left) /\ right[i] = both[i]
    BY <1>1, <1>4, <1>6, <1>7
  <2>2. CASE i <= Len(b)
    BY <1>4, <1>6, <2>1, <2>2
  <2>3. CASE ~(i <= Len(b))
    <3>1. i - Len(b) \in 1 .. k
      BY <1>1, <2>3
    <3>2. front[i - Len(b)] = w[i - Len(b)]
      BY <1>2, <3>1
    <3>3. QED
      BY <1>4, <1>6, <2>1, <2>3, <3>2
  <2>4. QED
    BY <2>2, <2>3
<1>9. left = right
  BY <1>6, <1>7, <1>8
<1>10. QED
  BY <1>2, <1>3, <1>4, <1>5, <1>9 DEF front, both, left, right

From(cells, a) == SubSeq(cells, a + 1, Len(cells))
Halves(c, b, w, k) ==
  b \in Seq(Cells) /\ w \in Seq(Cells) /\ k \in 0 .. Len(w) /\ c = b \o SubSeq(w, 1, k)

LEMMA CutBehind ==
  \A c, b, w, k, a : Halves(c, b, w, k) /\ a \in 0 .. Len(c) =>
    From(c, a) \o From(w, k) = From(b \o w, a)
<1> SUFFICES ASSUME NEW c, NEW b, NEW w, NEW k, NEW a, Halves(c, b, w, k), a \in 0 .. Len(c)
             PROVE  From(c, a) \o From(w, k) = From(b \o w, a)
  OBVIOUS
<1> DEFINE both == b \o w
           n == Len(b) + k
           m == Len(b) + Len(w)
           x == SubSeq(c, a + 1, n)
           y == SubSeq(w, k + 1, Len(w))
           left == x \o y
           right == SubSeq(both, a + 1, m)
<1>14. b \in Seq(Cells) /\ w \in Seq(Cells) /\ k \in 0 .. Len(w) /\ c = b \o SubSeq(w, 1, k)
  BY DEF Halves
<1>1. Len(w) \in Nat /\ Len(b) \in Nat /\ k \in Nat /\ k <= Len(w)
  BY <1>14
<1>2. both \in Seq(Cells) /\ Len(both) = m
      /\ \A i \in 1 .. m : both[i] = IF i <= Len(b) THEN b[i] ELSE w[i - Len(b)]
  BY <1>1, <1>14
<1>3. c = SubSeq(both, 1, n) /\ n \in 0 .. m
  BY <1>2, <1>14, CutInFront
<1> HIDE DEF both
<1>4. c \in Seq(Cells) /\ Len(c) = n /\ (\A i \in 1 .. n : c[i] = both[i]) /\ n \in Nat /\ m \in Nat /\ n <= m
  BY <1>1, <1>2, <1>3
<1>5. a \in Nat /\ a <= n
  BY <1>4
<1>6. x \in Seq(Cells) /\ Len(x) = n - a /\ \A i \in 1 .. n - a : x[i] = c[a + i]
  <2>1. c \in Seq(Cells) /\ Len(c) = n /\ n \in Nat /\ a \in Nat /\ a <= n
    BY <1>4, <1>5
  <2> HIDE DEF n
  <2>2. QED
    BY ONLY <2>1
<1>7. y \in Seq(Cells) /\ Len(y) = Len(w) - k /\ \A i \in 1 .. Len(w) - k : y[i] = w[k + i]
  BY <1>1, <1>14
<1>8. right \in Seq(Cells) /\ Len(right) = m - a /\ \A i \in 1 .. m - a : right[i] = both[a + i]
  BY <1>2, <1>4, <1>5
<1>9. Len(c) = n /\ Len(both) = m /\ Len(w) - k = m - n
  BY <1>1, <1>2, <1>4
<1> HIDE DEF x, y
<1>10. left \in Seq(Cells) /\ Len(left) = m - a
       /\ \A i \in 1 .. m - a : left[i] = IF i <= n - a THEN x[i] ELSE y[i - (n - a)]
  <2>1. Len(x) + Len(y) = m - a
    <3> DEFINE lb == Len(b)
               lw == Len(w)
               lx == Len(x)
               ly == Len(y)
    <3>1. lb \in Nat /\ lw \in Nat /\ k \in Nat /\ a \in Nat /\ lx = (lb + k) - a /\ ly = lw - k
      BY <1>1, <1>5, <1>6, <1>7
    <3> HIDE DEF lb, lw, lx, ly
    <3>2. lx + ly = (lb + lw) - a
      BY ONLY <3>1
    <3>3. QED
      BY <3>2 DEF lx, ly, lb, lw
  <2>2. left \in Seq(Cells) /\ Len(left) = Len(x) + Len(y)
        /\ \A i \in 1 .. Len(x) + Len(y) : left[i] = IF i <= Len(x) THEN x[i] ELSE y[i - Len(x)]
    <3>1. x \in Seq(Cells) /\ y \in Seq(Cells)
      BY <1>6, <1>7
    <3>2. QED
      BY ONLY <3>1
  <2> HIDE DEF left, n, m
  <2>3. QED
    BY <1>6, <2>1, <2>2
<1> HIDE DEF left, right
<1>11. ASSUME NEW i \in 1 .. m - a PROVE left[i] = right[i]
  <2>1. right[i] = both[a + i]
    BY <1>8
  <2>2. CASE i <= n - a
    <3>1. i \in 1 .. n - a /\ a + i \in 1 .. n
      BY <1>4, <1>5, <2>2
    <3>2. x[i] = c[a + i] /\ c[a + i] = both[a + i]
      BY <1>4, <1>6, <3>1
    <3>3. QED
      BY <1>10, <2>1, <2>2, <3>2
  <2>3. CASE ~(i <= n - a)
    <3> DEFINE j == i - (n - a)
    <3>1. j \in 1 .. Len(w) - k /\ a + i \in 1 .. m /\ ~(a + i <= Len(b)) /\ a + i - Len(b) = k + j
      <4> DEFINE lb == Len(b)
                 lw == Len(w)
      <4>1. lb \in Nat /\ lw \in Nat /\ k \in Nat /\ k <= lw /\ a \in Nat /\ a <= lb + k
            /\ i \in 1 .. (lb + lw) - a /\ ~(i <= (lb + k) - a)
        BY <1>1, <1>5, <2>3
      <4> HIDE DEF lb, lw
      <4>2. i - ((lb + k) - a) \in 1 .. lw - k /\ a + i \in 1 .. lb + lw /\ ~(a + i <= lb)
            /\ a + i - lb = k + (i - ((lb + k) - a))
        BY ONLY <4>1
      <4>3. QED
        BY <4>2 DEF lb, lw
    <3>2. y[j] = w[k + j]
      BY <1>7, <3>1
    <3>3. both[a + i] = w[a + i - Len(b)]
      BY <1>2, <3>1
    <3>4. QED
      BY <1>10, <2>1, <2>3, <3>1, <3>2, <3>3
  <2>4. QED
    BY <2>2, <2>3
<1>12. left = right
  <2> DEFINE l == m - a
  <2>1. l \in Nat /\ left \in Seq(Cells) /\ right \in Seq(Cells) /\ Len(left) = l /\ Len(right) = l
        /\ \A i \in 1 .. l : left[i] = right[i]
    BY <1>4, <1>5, <1>8, <1>10, <1>11
  <2> HIDE DEF l
  <2>2. QED
    BY <2>1
<1>13. QED
  BY <1>9, <1>12 DEF left, right, x, y, both, From

LEMMA BreakKeeps ==
  ASSUME StreamAssumption, StreamInv, NEW kept \in 0 .. Len(wire), Break(kept) PROVE StreamInv'
<1>1. /\ run.stage \in {"started", "running", "closed"}
      /\ run' = [run EXCEPT !.stage = "broken"] /\ wire' = SubSeq(wire, 1, kept)
      /\ buffer' = buffer /\ console' = console
  BY DEF Break
<1>2. wire \in Seq(Cells) /\ buffer \in Seq(Cells) /\ run.steps \in Nat
  BY DEF StreamInv, StreamTyped
<1>3. /\ wire' \in Seq(Cells) /\ Len(wire') = kept
      /\ buffer \o wire' = SubSeq(buffer \o wire, 1, Len(buffer) + kept)
      /\ Len(buffer) + kept \in 0 .. Len(buffer \o wire) /\ buffer \o wire \in Seq(Cells)
  <2> DEFINE part == SubSeq(wire, 1, kept)
  <2>1. part \in Seq(Cells) /\ Len(part) = kept
    BY <1>2, CutInFront
  <2>2. buffer \o part = SubSeq(buffer \o wire, 1, Len(buffer) + kept)
    BY <1>2, CutInFront
  <2>3. Len(buffer) + kept \in 0 .. Len(buffer \o wire) /\ buffer \o wire \in Seq(Cells)
    BY <1>2, CutInFront
  <2> HIDE DEF part
  <2>4. wire' = part
    BY <1>1 DEF part
  <2>5. QED
    BY <2>1, <2>2, <2>3, <2>4
<1>4. StreamTyped'
  BY <1>1, <1>3 DEF StreamInv, StreamTyped
<1>5. run'.stage = "broken" /\ run'.steps = run.steps /\ run'.emitted = run.emitted
  BY <1>1 DEF StreamInv, StreamTyped
<1>6. console.isRunning
  BY <1>1 DEF StreamInv
<1>7. PICK d \in Nat : ReadUpTo(d)
  BY <1>6 DEF StreamInv
<1>8. Follows(buffer \o wire', run.steps, d)
  <2>1. Follows(buffer \o wire, run.steps, d)
    BY <1>7 DEF ReadUpTo
  <2>2. Follows(SubSeq(buffer \o wire, 1, Len(buffer) + kept), run.steps, d)
    BY <1>2, <1>3, <2>1, FollowsLess
  <2>3. QED
    BY <1>3, <2>2
<1>9. Upto(d) + Len(buffer) + Len(wire') <= Upto(run.steps + 2)
  <2>1. Upto(d) + Len(buffer) + Len(wire) <= Upto(run.steps + 2)
    BY <1>7 DEF ReadUpTo
  <2>2. Upto(d) \in Nat /\ Upto(run.steps + 2) \in Nat
    <3>1. run.steps + 2 \in Nat
      BY <1>2
    <3>2. QED
      BY <3>1, FramesAddUp
  <2>3. Len(buffer) \in Nat /\ Len(wire) \in Nat /\ kept \in Nat /\ kept <= Len(wire)
    BY <1>2
  <2>4. QED
    BY <1>3, <2>1, <2>2, <2>3
<1>10. ReadUpTo(d)'
  BY <1>1, <1>5, <1>7, <1>8, <1>9 DEF ReadUpTo
<1>11. QED
  BY <1>1, <1>4, <1>5, <1>6, <1>10 DEF StreamInv

LEMMA JoinsNest ==
  ASSUME NEW b \in Seq(Cells), NEW w \in Seq(Cells), NEW f \in Seq(Cells)
  PROVE  (b \o w) \o f = b \o (w \o f)
<1> DEFINE c == b \o w
           g == w \o f
           left == c \o f
           right == b \o g
<1>1. c \in Seq(Cells) /\ Len(c) = Len(b) + Len(w)
      /\ \A i \in 1 .. Len(b) + Len(w) : c[i] = IF i <= Len(b) THEN b[i] ELSE w[i - Len(b)]
  OBVIOUS
<1>2. g \in Seq(Cells) /\ Len(g) = Len(w) + Len(f)
      /\ \A i \in 1 .. Len(w) + Len(f) : g[i] = IF i <= Len(w) THEN w[i] ELSE f[i - Len(w)]
  OBVIOUS
<1>3. Len(b) \in Nat /\ Len(w) \in Nat /\ Len(f) \in Nat
  OBVIOUS
<1> HIDE DEF c, g
<1>4. left \in Seq(Cells) /\ Len(left) = Len(b) + Len(w) + Len(f)
      /\ \A i \in 1 .. Len(b) + Len(w) + Len(f) :
           left[i] = IF i <= Len(b) + Len(w) THEN c[i] ELSE f[i - (Len(b) + Len(w))]
  <2>1. left \in Seq(Cells) /\ Len(left) = Len(c) + Len(f)
        /\ \A i \in 1 .. Len(c) + Len(f) : left[i] = IF i <= Len(c) THEN c[i] ELSE f[i - Len(c)]
    <3>1. c \in Seq(Cells) /\ f \in Seq(Cells)
      BY <1>1
    <3>2. left \in Seq(Cells) /\ Len(left) = Len(c) + Len(f)
      BY ONLY <3>1 DEF left
    <3>3. \A i \in 1 .. Len(c) + Len(f) :
             left[i] = IF i <= Len(c) THEN c[i] ELSE f[i - Len(c)]
      BY ONLY <3>1 DEF left
    <3>4. QED
      BY <3>2, <3>3
  <2>2. QED
    BY <1>1, <2>1
<1>5. right \in Seq(Cells) /\ Len(right) = Len(b) + Len(w) + Len(f)
      /\ \A i \in 1 .. Len(b) + Len(w) + Len(f) :
           right[i] = IF i <= Len(b) THEN b[i] ELSE g[i - Len(b)]
  <2>1. right \in Seq(Cells) /\ Len(right) = Len(b) + Len(g)
        /\ \A i \in 1 .. Len(b) + Len(g) : right[i] = IF i <= Len(b) THEN b[i] ELSE g[i - Len(b)]
    <3>1. b \in Seq(Cells) /\ g \in Seq(Cells)
      BY <1>2
    <3>2. right \in Seq(Cells) /\ Len(right) = Len(b) + Len(g)
      BY ONLY <3>1 DEF right
    <3>3. \A i \in 1 .. Len(b) + Len(g) :
             right[i] = IF i <= Len(b) THEN b[i] ELSE g[i - Len(b)]
      BY ONLY <3>1 DEF right
    <3>4. QED
      BY <3>2, <3>3
  <2>2. Len(b) + Len(g) = Len(b) + Len(w) + Len(f)
    BY <1>2, <1>3
  <2>3. QED
    BY <2>1, <2>2
<1> HIDE DEF left, right
<1> DEFINE l == Len(b) + Len(w) + Len(f)
<1>6. ASSUME NEW i \in 1 .. l PROVE left[i] = right[i]
  <2>1. CASE i <= Len(b)
    <3>1. i <= Len(b) + Len(w) /\ i \in 1 .. Len(b) + Len(w)
      BY <1>3, <2>1
    <3>2. QED
      BY <1>1, <1>4, <1>5, <2>1, <3>1
  <2>2. CASE i > Len(b) /\ i <= Len(b) + Len(w)
    <3>1. i \in 1 .. Len(b) + Len(w) /\ i - Len(b) \in 1 .. Len(w) + Len(f) /\ i - Len(b) <= Len(w)
          /\ ~(i <= Len(b))
      BY <1>3, <2>2
    <3>2. c[i] = w[i - Len(b)] /\ g[i - Len(b)] = w[i - Len(b)]
      BY <1>1, <1>2, <3>1
    <3>3. QED
      BY <1>4, <1>5, <2>2, <3>1, <3>2
  <2>3. CASE i > Len(b) + Len(w)
    <3>1. i - Len(b) \in 1 .. Len(w) + Len(f) /\ ~(i - Len(b) <= Len(w)) /\ ~(i <= Len(b))
          /\ ~(i <= Len(b) + Len(w)) /\ (i - Len(b)) - Len(w) = i - (Len(b) + Len(w))
      BY <1>3, <2>3
    <3>2. g[i - Len(b)] = f[i - (Len(b) + Len(w))]
      BY <1>2, <3>1
    <3>3. QED
      BY <1>4, <1>5, <3>1, <3>2
  <2>4. i <= Len(b) \/ (i > Len(b) /\ i <= Len(b) + Len(w)) \/ i > Len(b) + Len(w)
    BY <1>3
  <2>5. QED
    BY <2>1, <2>2, <2>3, <2>4
<1>7. l \in Nat /\ left \in Seq(Cells) /\ right \in Seq(Cells) /\ Len(left) = l /\ Len(right) = l
      /\ \A i \in 1 .. l : left[i] = right[i]
  BY <1>3, <1>4, <1>5, <1>6
<1> HIDE DEF l
<1>8. left = right
  BY ONLY <1>7
<1>9. QED
  BY <1>8 DEF left, right, c, g

\* While only whole steps are under way, the frames of the next events can be sent.
LEMMA WireGrows ==
  ASSUME StreamAssumption, NEW b \in Seq(Cells), NEW w \in Seq(Cells), NEW s \in Nat, NEW d \in Nat,
         NEW t \in Nat, t = s \/ t = s + 1, Follows(b \o w, s, d),
         Upto(d) + Len(b) + Len(w) = Upto(s),
         NEW l \in Nat, NEW E, Len(E) = l, \A k \in 1 .. l : E[k] = EventAt(t, s + k)
  PROVE  /\ w \o FramedAll(E) \in Seq(Cells) /\ Follows(b \o (w \o FramedAll(E)), t, d)
         /\ d <= s /\ Upto(d) + Len(b) + Len(w \o FramedAll(E)) = Upto(s + l)
<1> DEFINE c == b \o w
           f == FramedAll(E)
           n == s - d
<1>1. /\ Upto(d) \in Nat /\ Upto(s) \in Nat /\ Upto(l) \in Nat /\ FrameCells \in Nat /\ FrameCells >= 3
      /\ Upto(s + l) = Upto(s) + Upto(l)
  BY FramesAddUp
<1>2. c \in Seq(Cells) /\ Len(c) = Len(b) + Len(w) /\ Len(b) \in Nat /\ Len(w) \in Nat
  OBVIOUS
<1>3. d <= s
  <2> DEFINE x == Len(b)
             y == Len(w)
             u == Upto(d)
             v == Upto(s)
  <2>1. s < d => v + FrameCells <= u
    BY FramesAddUp
  <2>2. x \in Nat /\ y \in Nat /\ u \in Nat /\ v \in Nat /\ FrameCells \in Nat /\ FrameCells >= 3
        /\ u + x + y = v
    BY <1>1, <1>2
  <2> HIDE DEF x, y, u, v
  <2>3. ~(s < d)
    BY ONLY <2>1, <2>2
  <2>4. QED
    BY <2>3
<1>4. n \in Nat /\ d + n = s
  BY <1>3
<1>5. Upto(s) = Upto(d) + Upto(n) /\ Upto(n) \in Nat
  <2> HIDE DEF n
  <2>1. Upto(n) \in Nat
    BY <1>4, FramesAddUp
  <2>2. Upto(d + n) = Upto(d) + Upto(n)
    BY <1>4, FramesAddUp
  <2>3. QED
    BY <1>4, <2>1, <2>2
<1>6. Len(c) = Upto(n)
  <2> DEFINE x == Len(b)
             y == Len(w)
             z == Len(c)
             u == Upto(d)
             v == Upto(n)
  <2>1. x \in Nat /\ y \in Nat /\ z = x + y /\ u + x + y = Upto(s)
    BY <1>2
  <2>2. u \in Nat /\ v \in Nat /\ Upto(s) = u + v
    BY <1>1, <1>5
  <2> HIDE DEF c, n, x, y, z, u, v
  <2>3. u + x + y = u + v
    BY ONLY <2>1, <2>2
  <2>4. z = v
    BY ONLY <2>1, <2>2, <2>3
  <2>5. QED
    BY <2>4 DEF z, v
<1>7. Follows(c, t, d)
  <2>1. CASE t = s
    BY <2>1
  <2>2. CASE t = s + 1
    <3>1. Follows(c, s, d)
      OBVIOUS
    <3>2. Upto(d) + Len(c) = Upto(s)
      <4> HIDE DEF c, n
      <4>1. QED
        BY <1>1, <1>5, <1>6
    <3> HIDE DEF c
    <3>3. QED
      BY <1>2, <2>2, <3>1, <3>2, FollowsLonger
  <2>3. QED
    BY <2>1, <2>2
<1>8. f \in Seq(Cells) /\ Len(f) = Upto(l) /\ Follows(f, t, s)
  <2>1. Sends(f, l, t, s)
    BY FramesOfAll
  <2>2. QED
    BY <2>1 DEF Sends
<1> HIDE DEF c, f, n
<1>9. Follows(f, t, d + n)
  BY <1>4, <1>8
<1>10. Follows(c \o f, t, d)
  BY <1>2, <1>4, <1>6, <1>7, <1>8, <1>9, FollowsMore
<1>11. c \o f = b \o (w \o f)
  BY <1>8, JoinsNest DEF c
<1>12. w \o f \in Seq(Cells) /\ Len(w \o f) = Len(w) + Upto(l)
  <2>1. f \in Seq(Cells) /\ w \in Seq(Cells)
    BY <1>8
  <2>2. w \o f \in Seq(Cells) /\ Len(w \o f) = Len(w) + Len(f)
    BY ONLY <2>1
  <2>3. QED
    BY <1>8, <2>2
<1>13. Upto(d) + Len(b) + Len(w \o f) = Upto(s + l)
  <2> DEFINE x == Len(w \o f)
  <2>1. x = Len(w) + Upto(l)
    BY <1>12
  <2> DEFINE y == Len(b)
             z == Len(w)
             u == Upto(d)
             v == Upto(l)
  <2>2. y \in Nat /\ z \in Nat /\ u \in Nat /\ v \in Nat /\ x = z + v /\ u + y + z = Upto(s)
        /\ Upto(s + l) = Upto(s) + v
    BY <1>1, <1>2, <2>1
  <2> HIDE DEF x, y, z, u, v
  <2>3. u + y + x = Upto(s + l)
    BY ONLY <2>2
  <2>4. QED
    BY <2>3 DEF u, x, y
<1>14. QED
  BY <1>3, <1>10, <1>11, <1>12, <1>13 DEF f

LEMMA SnapshotKeeps ==
  ASSUME StreamAssumption, StreamInv, Snapshot PROVE StreamInv'
<1> DEFINE s == run.steps
           t == IF run.stage = "started" THEN 0 ELSE s + 1
           l == t - s
           E == NewSteps(t, s)
<1>1. wire \in Seq(Cells) /\ buffer \in Seq(Cells) /\ s \in Nat /\ run.emitted = s
      /\ run.stage \in {"started", "running"} /\ (run.stage = "started" => s = 0)
  BY DEF StreamInv, StreamTyped, Snapshot
<1>2. t \in Nat /\ (t = s \/ t = s + 1) /\ l \in Nat /\ s + l = t
  BY <1>1
<1>3. /\ t <= MaxSteps /\ wire' = wire \o FramedAll(E)
      /\ run' = [stage |-> "running", steps |-> t, emitted |-> t]
      /\ buffer' = buffer /\ console' = console
  BY <1>1 DEF Snapshot
<1>4. E = [k \in 1 .. l |-> EventAt(t, s + k)]
  <2>1. \A k \in 1 .. l : EventAt(t, s + k) = Event("step", s + k)
    <3> SUFFICES ASSUME NEW k \in 1 .. l PROVE EventAt(t, s + k) = Event("step", s + k)
      OBVIOUS
    <3>1. s + k <= t
      BY <1>1, <1>2
    <3> HIDE DEF t, s
    <3>2. QED
      BY <3>1 DEF EventAt
  <2>2. E = [k \in 1 .. l |-> Event("step", s + k)]
    BY DEF NewSteps
  <2> HIDE DEF E, l, t, s
  <2>3. QED
    BY <2>1, <2>2
<1>5. console.isRunning
  BY <1>1 DEF StreamInv
<1>6. PICK d \in Nat : ReadUpTo(d)
  BY <1>5 DEF StreamInv
<1>7. Follows(buffer \o wire, s, d) /\ Upto(d) + Len(buffer) + Len(wire) = Upto(s)
      /\ Len(buffer) < FrameCells
  BY <1>1, <1>6 DEF ReadUpTo
<1> HIDE DEF E, l, t
<1>8. /\ wire \o FramedAll(E) \in Seq(Cells) /\ Follows(buffer \o (wire \o FramedAll(E)), t, d)
      /\ d <= s /\ Upto(d) + Len(buffer) + Len(wire \o FramedAll(E)) = Upto(s + l)
  <2>1. Len(E) = l /\ \A k \in 1 .. l : E[k] = EventAt(t, s + k)
    BY <1>2, <1>4
  <2> HIDE DEF s
  <2>2. QED
    BY <1>1, <1>2, <1>7, <2>1, WireGrows
<1>9. StreamTyped'
  <2>1. run' \in [stage : {"none", "requested", "started", "running", "closed", "broken"},
                 steps : Nat, emitted : Nat]
    BY <1>2, <1>3
  <2>2. wire' \in Seq(Cells) /\ buffer' \in Seq(Cells)
    BY <1>1, <1>3, <1>8
  <2>3. QED
    BY <1>3, <2>1, <2>2 DEF StreamInv, StreamTyped
<1>10. run'.stage = "running" /\ run'.steps = t /\ run'.emitted = t
  BY <1>3
<1>11. ReadUpTo(d)'
  <2>1. Follows(buffer' \o wire', run'.steps, d)
    BY <1>3, <1>8, <1>10
  <2>2. Upto(d) + Len(buffer') + Len(wire') = Upto(run'.steps)
    BY <1>2, <1>3, <1>8, <1>10
  <2>3. Upto(t) <= Upto(t + 2)
    <3>1. t + 2 \in Nat /\ t < t + 2
      BY <1>2
    <3>2. Upto(t) + FrameCells <= Upto(t + 2)
      BY <1>2, <3>1, FramesAddUp
    <3>3. Upto(t) \in Nat /\ Upto(t + 2) \in Nat /\ FrameCells \in Nat
      BY <1>2, <3>1, FramesAddUp
    <3>4. QED
      BY <3>2, <3>3
  <2>4. Upto(d) + Len(buffer') + Len(wire') <= Upto(run'.steps + 2)
    BY <1>10, <2>2, <2>3
  <2>5. Lesser(d, t) = d /\ Lesser(d, s) = d /\ ~(d > s) /\ ~(d > t)
    BY <1>1, <1>2, <1>8 DEF Lesser
  <2>6. console.steps = Upward(0, d) /\ (console.result <=> FALSE)
    BY <1>6, <2>5 DEF ReadUpTo
  <2>7. console'.steps = Upward(0, Lesser(d, run'.steps))
        /\ (console'.result <=> d > run'.steps)
    BY <1>3, <1>10, <2>5, <2>6
  <2>8. Len(buffer') < FrameCells
    BY <1>3, <1>7
  <2>9. QED
    BY <1>10, <2>1, <2>2, <2>4, <2>7, <2>8 DEF ReadUpTo
<1>12. QED
  BY <1>3, <1>5, <1>9, <1>10, <1>11 DEF StreamInv

LEMMA CompleteKeeps ==
  ASSUME StreamAssumption, StreamInv, Complete PROVE StreamInv'
<1> DEFINE s == run.steps
           E == <<Event("result", 0), Event("[DONE]", 0)>>
<1>1. wire \in Seq(Cells) /\ buffer \in Seq(Cells) /\ s \in Nat /\ run.stage = "running"
  BY DEF StreamInv, StreamTyped, Complete
<1>2. /\ wire' = wire \o FramedAll(E) /\ run' = [run EXCEPT !.stage = "closed"]
      /\ buffer' = buffer /\ console' = console
  BY DEF Complete
<1>3. E = [k \in 1 .. 2 |-> EventAt(s, s + k)]
  <2>1. EventAt(s, s + 1) = Event("result", 0)
    BY <1>1 DEF EventAt
  <2>2. EventAt(s, s + 2) = Event("[DONE]", 0)
    BY <1>1 DEF EventAt
  <2>3. [k \in 1 .. 2 |-> EventAt(s, s + k)] = <<EventAt(s, s + 1), EventAt(s, s + 2)>>
    OBVIOUS
  <2>4. QED
    BY <2>1, <2>2, <2>3
<1>5. console.isRunning
  BY <1>1 DEF StreamInv
<1>6. PICK d \in Nat : ReadUpTo(d)
  BY <1>5 DEF StreamInv
<1>7. Follows(buffer \o wire, s, d) /\ Upto(d) + Len(buffer) + Len(wire) = Upto(s)
  BY <1>1, <1>6 DEF ReadUpTo
<1> HIDE DEF E
<1>8. /\ wire \o FramedAll(E) \in Seq(Cells) /\ Follows(buffer \o (wire \o FramedAll(E)), s, d)
      /\ Upto(d) + Len(buffer) + Len(wire \o FramedAll(E)) = Upto(s + 2)
  <2> HIDE DEF s
  <2>1. s = s \/ s = s + 1
    OBVIOUS
  <2>2. 2 \in Nat
    OBVIOUS
  <2>3. QED
    <3> DEFINE l == 2
    <3>1. l \in Nat /\ Len(E) = l /\ \A k \in 1 .. l : E[k] = EventAt(s, s + k)
      BY <1>3
    <3> HIDE DEF l
    <3>2. /\ wire \o FramedAll(E) \in Seq(Cells) /\ Follows(buffer \o (wire \o FramedAll(E)), s, d)
          /\ Upto(d) + Len(buffer) + Len(wire \o FramedAll(E)) = Upto(s + l)
      BY <1>1, <1>7, <2>1, <3>1, WireGrows
    <3>3. QED
      BY <3>2 DEF l
<1>9. StreamTyped'
  BY <1>1, <1>2, <1>8 DEF StreamInv, StreamTyped
<1>10. run'.stage = "closed" /\ run'.steps = s /\ run'.emitted = run.emitted
  BY <1>2 DEF StreamInv, StreamTyped
<1>11. ReadUpTo(d)'
  <2>1. Follows(buffer' \o wire', run'.steps, d)
    BY <1>2, <1>8, <1>10
  <2>2. Upto(d) + Len(buffer') + Len(wire') = Upto(run'.steps + 2)
    BY <1>2, <1>8, <1>10
  <2>3. s + 2 \in Nat
    BY <1>1
  <2>4. Upto(s + 2) \in Nat
    BY <2>3, FramesAddUp
  <2>5. Upto(d) + Len(buffer') + Len(wire') <= Upto(run'.steps + 2)
    BY <1>10, <2>2, <2>4
  <2>6. QED
    BY <1>2, <1>6, <1>10, <2>1, <2>2, <2>5 DEF ReadUpTo
<1>12. QED
  BY <1>2, <1>5, <1>9, <1>10, <1>11 DEF StreamInv

\* What a read of q more frames adds to the steps and to the result that are shown.
LEMMA MoreIsShown ==
  ASSUME NEW s \in Nat, NEW d \in Nat, NEW q \in Nat, NEW m \in Nat, NEW h \in Nat,
         Within(m, q, d, s + 1), Within(h, m, d, s)
  PROVE  /\ Lesser(d, s) + h = Lesser(d + q, s)
         /\ h > 0 => Lesser(d, s) = d
         /\ (d > s \/ \E i \in 1 .. m : d + i = s + 1) <=> d + q > s
<1>1. m \in Nat /\ h \in Nat /\ m <= q /\ h <= m
  BY DEF Within
<1>10. \A k \in 1 .. q : d + k <= s + 1 <=> k <= m
  BY DEF Within
<1>11. \A i \in 1 .. m : d + i <= s <=> i <= h
  BY DEF Within
<1>2. ASSUME d >= s PROVE h = 0
  <2> SUFFICES ASSUME h # 0 PROVE FALSE
    OBVIOUS
  <2>1. 1 \in 1 .. m /\ 1 <= h
    BY <1>1
  <2>2. d + 1 <= s
    BY <1>11, <2>1
  <2>3. QED
    BY <1>2, <2>2
<1>3. ASSUME d < s, q <= s - d PROVE m = q /\ h = q
  <2>1. CASE q = 0
    BY <1>1, <2>1
  <2>2. CASE q # 0
    <3>1. q \in 1 .. q /\ d + q <= s + 1 /\ d + q <= s
      BY <1>3, <2>2
    <3>2. q <= m
      BY <1>10, <3>1
    <3>3. m = q
      BY <1>1, <3>2
    <3>4. q \in 1 .. m
      BY <3>1, <3>3
    <3>5. q <= h
      BY <1>11, <3>1, <3>4
    <3>6. QED
      BY <1>1, <3>3, <3>5
  <2>3. QED
    BY <2>1, <2>2
<1>4. ASSUME d < s, q > s - d PROVE h = s - d /\ s + 1 - d \in 1 .. m
  <2> DEFINE i == s - d
             j == s + 1 - d
  <2>1. i \in 1 .. q /\ d + i = s /\ j \in 1 .. q /\ d + j = s + 1 /\ i < j
    BY <1>4
  <2> HIDE DEF i, j
  <2>2. j <= m
    BY <1>10, <2>1
  <2>3. i \in 1 .. m
    BY <1>1, <2>1, <2>2
  <2>4. d + i <= s
    BY <2>1
  <2>5. i <= h
    BY <1>11, <2>3, <2>4
  <2>6. h \in 1 .. m
    BY <1>1, <2>3, <2>5
  <2>7. d + h <= s
    BY <1>1, <1>11, <2>6
  <2>8. h = i
    BY <1>1, <2>1, <2>5, <2>7
  <2>9. j \in 1 .. m
    BY <1>1, <2>1, <2>2
  <2>10. QED
    BY <2>8, <2>9 DEF i, j
<1>5. Lesser(d, s) + h = Lesser(d + q, s)
  <2>1. CASE d >= s
    BY <1>2, <2>1 DEF Lesser
  <2>2. CASE d < s /\ q <= s - d
    BY <1>3, <2>2 DEF Lesser
  <2>3. CASE d < s /\ q > s - d
    BY <1>4, <2>3 DEF Lesser
  <2>4. QED
    BY <2>1, <2>2, <2>3
<1>6. h > 0 => Lesser(d, s) = d
  BY <1>2 DEF Lesser
<1>7. ASSUME d + q > s PROVE d > s \/ \E i \in 1 .. m : d + i = s + 1
  <2>1. CASE d > s
    BY <2>1
  <2>2. CASE d <= s
    <3> DEFINE i == s + 1 - d
    <3>1. i \in 1 .. q /\ d + i = s + 1 /\ d + i <= s + 1
      BY <1>7, <2>2
    <3> HIDE DEF i
    <3>2. i <= m
      BY <1>10, <3>1
    <3>3. i \in 1 .. m
      BY <1>1, <3>1, <3>2
    <3>4. QED
      BY <3>1, <3>3
  <2>3. QED
    BY <2>1, <2>2
<1>8. ASSUME d > s \/ \E i \in 1 .. m : d + i = s + 1 PROVE d + q > s
  <2>1. CASE d > s
    BY <2>1
  <2>2. ASSUME NEW i \in 1 .. m, d + i = s + 1 PROVE d + q > s
    BY <1>1, <2>2
  <2>3. QED
    BY <1>8, <2>1, <2>2
<1>9. QED
  BY <1>5, <1>6, <1>7, <1>8

LEMMA NumbersGoOn ==
  ASSUME NEW a \in Nat, NEW h \in Nat, NEW d \in Nat, h > 0 => a = d
  PROVE  /\ Upward(0, a) \in Seq(Nat) /\ Upward(d, h) \in Seq(Nat)
         /\ Upward(0, a) \o Upward(d, h) = Upward(0, a + h)
<1> DEFINE x == Upward(0, a)
           y == Upward(d, h)
<1>1. x \in Seq(Nat) /\ Len(x) = a /\ \A i \in 1 .. a : x[i] = i
  BY DEF Upward
<1>2. y \in Seq(Nat) /\ Len(y) = h /\ \A i \in 1 .. h : y[i] = d + i
  BY DEF Upward
<1> HIDE DEF x, y
<1>3. x \o y \in Seq(Nat) /\ Len(x \o y) = a + h
      /\ \A i \in 1 .. a + h : (x \o y)[i] = IF i <= a THEN x[i] ELSE y[i - a]
  <2>1. x \in Seq(Nat) /\ y \in Seq(Nat) /\ Len(x) = a /\ Len(y) = h
    BY <1>1, <1>2
  <2>2. x \o y \in Seq(Nat) /\ Len(x \o y) = Len(x) + Len(y)
        /\ \A i \in 1 .. Len(x) + Len(y) : (x \o y)[i] = IF i <= Len(x) THEN x[i] ELSE y[i - Len(x)]
    <3>1. x \in Seq(Nat) /\ y \in Seq(Nat)
      BY <2>1
    <3>2. x \o y \in Seq(Nat) /\ Len(x \o y) = Len(x) + Len(y)
      BY ONLY <3>1
    <3>3. \A i \in 1 .. Len(x) + Len(y) :
             (x \o y)[i] = IF i <= Len(x) THEN x[i] ELSE y[i - Len(x)]
      BY ONLY <3>1
    <3>4. QED
      BY <3>2, <3>3
  <2>3. QED
    BY <2>1, <2>2
<1>4. ASSUME NEW i \in 1 .. a + h PROVE (x \o y)[i] = i
  <2>1. CASE i <= a
    BY <1>1, <1>3, <2>1
  <2>2. CASE i > a
    <3>1. i - a \in 1 .. h /\ h > 0
      BY <2>2
    <3>2. y[i - a] = d + (i - a)
      BY <1>2, <3>1
    <3>3. QED
      BY <1>3, <2>2, <3>1, <3>2
  <2>3. i <= a \/ i > a
    OBVIOUS
  <2>4. QED
    BY <2>1, <2>2, <2>3
<1> DEFINE z == x \o y
<1>5. z = [i \in 1 .. a + h |-> z[i]]
  <2> DEFINE l == a + h
  <2>1. z \in Seq(Nat) /\ Len(z) = l
    BY <1>3
  <2> HIDE DEF z, l
  <2>2. z = [i \in 1 .. l |-> z[i]]
    BY ONLY <2>1
  <2>3. QED
    BY <2>2 DEF l
<1>6. z = [i \in 1 .. a + h |-> 0 + i]
  BY <1>4, <1>5
<1>7. QED
  BY <1>1, <1>2, <1>6 DEF Upward, x, y

LEMMA ReadKeeps ==
  ASSUME StreamAssumption, StreamInv, NEW n \in 1 .. Len(wire), Read(n) PROVE StreamInv'
<1> DEFINE s == run.steps
           both == buffer \o wire
           c == buffer \o SubSeq(wire, 1, n)
           arrived == Parsed(c)
<1>1. wire \in Seq(Cells) /\ buffer \in Seq(Cells) /\ s \in Nat /\ s <= MaxSteps /\ console.isRunning
      /\ n \in 0 .. Len(wire)
  BY DEF StreamInv, StreamTyped, Read
<1>2. /\ buffer' = Remaining(c) /\ wire' = SubSeq(wire, n + 1, Len(wire)) /\ run' = run
      /\ console' = [console EXCEPT
           !.steps = @ \o StepsIn(arrived),
           !.result = @ \/ \E i \in DOMAIN arrived : arrived[i].kind = "result"]
  BY DEF Read
<1>3. PICK d \in Nat : ReadUpTo(d)
  BY <1>1 DEF StreamInv
<1>4. Follows(both, s, d)
  BY <1>3 DEF ReadUpTo
<1>5. /\ c = SubSeq(both, 1, Len(buffer) + n) /\ Len(buffer) + n \in 0 .. Len(both)
      /\ both \in Seq(Cells) /\ Len(both) = Len(buffer) + Len(wire)
      /\ wire' \in Seq(Cells) /\ Len(wire') = Len(wire) - n
  <2>1. c = SubSeq(both, 1, Len(buffer) + n)
    BY <1>1, CutInFront
  <2>2. Len(buffer) + n \in 0 .. Len(both) /\ both \in Seq(Cells) /\ Len(both) = Len(buffer) + Len(wire)
    BY <1>1, CutInFront
  <2>3. SubSeq(wire, n + 1, Len(wire)) \in Seq(Cells)
        /\ Len(SubSeq(wire, n + 1, Len(wire))) = Len(wire) - n
    BY <1>1, CutInFront
  <2>4. QED
    BY <1>2, <2>1, <2>2, <2>3
<1>6. c \in Seq(Cells) /\ Len(c) = Len(buffer) + n
  <2>1. SubSeq(wire, 1, n) \in Seq(Cells) /\ Len(SubSeq(wire, 1, n)) = n
    BY <1>1, CutInFront
  <2> DEFINE part == SubSeq(wire, 1, n)
  <2> HIDE DEF part
  <2>2. part \in Seq(Cells) /\ Len(part) = n
    BY <2>1 DEF part
  <2>5. part \in Seq(Cells) /\ buffer \in Seq(Cells)
    BY <1>1, <2>2
  <2>6. buffer \o part \in Seq(Cells) /\ Len(buffer \o part) = Len(buffer) + Len(part)
    BY ONLY <2>5
  <2>3. buffer \o part \in Seq(Cells) /\ Len(buffer \o part) = Len(buffer) + n
    BY <2>2, <2>6
  <2>4. QED
    BY <2>3 DEF part
<1> HIDE DEF s, both
<1>7. Follows(c, s, d)
  <2>1. Follows(SubSeq(both, 1, Len(buffer) + n), s, d)
    BY <1>1, <1>4, <1>5, FollowsLess
  <2>2. QED
    BY <1>5, <2>1
<1>8. PICK q \in Nat, t \in 0 .. FrameCells - 1 : Len(c) = Upto(q) + t
  <2>1. Len(c) \in Nat
    BY <1>6
  <2> HIDE DEF c
  <2>2. QED
    BY <2>1, CellsHavePlaces
<1> HIDE DEF c, arrived
<1>9. Upto(q) \in Nat /\ t \in Nat /\ t < FrameCells
  BY PlacesAreNumbers
<1>10. buffer' = SubSeq(c, Upto(q) + 1, Len(c)) /\ Upto(q) \in 0 .. Len(c)
  <2>1. Remaining(c) = SubSeq(c, Upto(q) + 1, Len(c))
    <3>1. CutAfter(c, s, d, q, t)
      BY <1>1, <1>6, <1>7, <1>8 DEF CutAfter
    <3>2. QED
      BY <3>1, CutRemains
  <2>2. Upto(q) \in 0 .. Len(c)
    BY <1>8, <1>9
  <2>3. QED
    BY <1>2, <2>1, <2>2
<1>11. buffer' \in Seq(Cells) /\ Len(buffer') = t
  <2> DEFINE u == Upto(q)
             l == Len(c)
             b == SubSeq(c, u + 1, l)
  <2>1. u \in Nat /\ l \in Nat /\ l = u + t /\ c \in Seq(Cells) /\ l = Len(c)
    BY <1>6, <1>8, <1>9
  <2>2. b = buffer'
    BY <1>10
  <2> HIDE DEF u, l
  <2>3. b \in Seq(Cells) /\ Len(b) = t
    BY <1>9, <2>1
  <2>4. QED
    BY <2>2, <2>3
<1>12. buffer' \o wire' = SubSeq(both, Upto(q) + 1, Len(both))
  <2> DEFINE u == Upto(q)
  <2>1. u \in 0 .. Len(c) /\ c = buffer \o SubSeq(wire, 1, n)
    BY <1>10 DEF c
  <2> HIDE DEF u
  <2>2. From(c, u) \o From(wire, n) = From(buffer \o wire, u)
    <3>1. Halves(c, buffer, wire, n)
      BY <1>1, <2>1 DEF Halves
    <3>2. u \in 0 .. Len(c)
      BY <2>1
    <3>3. QED
      BY ONLY <3>1, <3>2, CutBehind
  <2>3. QED
    BY <1>2, <1>10, <2>2 DEF both, u, From
<1>13. Follows(buffer' \o wire', s, d + q)
  <2>1. Upto(q) <= Len(both)
    <3> DEFINE l == Len(both)
               k == Len(c)
    <3>1. l \in Nat /\ k \in Nat /\ k <= l /\ k = Upto(q) + t
      BY <1>1, <1>5, <1>6, <1>8
    <3> HIDE DEF l, k
    <3>2. Upto(q) <= l
      BY <1>9, <3>1
    <3>3. QED
      BY <3>2 DEF l
  <2>2. Follows(SubSeq(both, Upto(q) + 1, Len(both)), s, d + q)
    BY <1>1, <1>4, <1>5, <2>1, FollowsRest
  <2>3. QED
    BY <1>12, <2>2
<1>14. Upto(d + q) + Len(buffer') + Len(wire') = Upto(d) + Len(buffer) + Len(wire)
  <2> DEFINE x == Len(buffer)
             y == Len(wire)
             u == Upto(d)
             v == Upto(q)
  <2>1. x \in Nat /\ y \in Nat /\ u \in Nat /\ v \in Nat /\ x + n = v + t
    <3>1. u \in Nat
      BY FramesAddUp
    <3>2. v \in Nat
      BY <1>9
    <3>3. x \in Nat /\ y \in Nat
      BY <1>1
    <3>4. x + n = v + t
      BY <1>6, <1>8
    <3>5. QED
      BY <3>1, <3>2, <3>3, <3>4
  <2>2. Upto(d + q) = u + v
    BY FramesAddUp
  <2>3. Len(buffer') = t /\ Len(wire') = y - n /\ n \in Nat
    BY <1>5, <1>11
  <2> HIDE DEF x, y, u, v
  <2>4. (u + v) + t + (y - n) = u + x + y
    BY <1>9, <2>1, <2>3
  <2>5. QED
    BY <2>2, <2>3, <2>4 DEF x, y, u
<1>15. PICK m \in Nat : Within(m, q, d, s + 1) /\ arrived = EventsAfter(s, d, m)
  <2>1. \E m \in Nat : Within(m, q, d, s + 1) /\ Parsed(c) = EventsAfter(s, d, m)
    BY ONLY StreamAssumption, <1>1, <1>6, <1>7, <1>8, EventsAreParsed
  <2>2. QED
    BY <2>1 DEF arrived
<1>17. PICK h \in Nat : Within(h, m, d, s) /\ StepsIn(arrived) = Upward(d, h)
  <2>1. \E h \in Nat : Within(h, m, d, s) /\ StepsIn(EventsAfter(s, d, m)) = Upward(d, h)
    BY <1>1, StepsAreRead
  <2>2. QED
    BY <1>15, <2>1
<1>18. /\ Lesser(d, s) + h = Lesser(d + q, s)
       /\ h > 0 => Lesser(d, s) = d
       /\ (d > s \/ \E i \in 1 .. m : d + i = s + 1) <=> d + q > s
  BY <1>1, <1>15, <1>17, MoreIsShown
<1>19. (\E i \in DOMAIN arrived : arrived[i].kind = "result") <=> \E i \in 1 .. m : d + i = s + 1
  <2>1. DOMAIN arrived = 1 .. m
    BY <1>15 DEF EventsAfter
  <2>2. ASSUME NEW i \in 1 .. m PROVE arrived[i].kind = "result" <=> d + i = s + 1
    <3>1. arrived[i] = EventAt(s, d + i)
      BY <1>15 DEF EventsAfter
    <3>2. QED
      BY <1>1, <3>1 DEF EventAt, Event
  <2>3. QED
    BY <2>1, <2>2
<1>20. console.steps = Upward(0, Lesser(d, s)) /\ (console.result <=> d > s)
  BY <1>3 DEF ReadUpTo, s
<1>21. console.steps \o StepsIn(arrived) = Upward(0, Lesser(d + q, s))
       /\ Upward(0, Lesser(d + q, s)) \in Seq(Nat)
  <2> DEFINE a == Lesser(d, s)
  <2>1. a \in Nat /\ a + h \in Nat /\ 0 \in Nat
    BY <1>1 DEF Lesser
  <2>2. a + h = Lesser(d + q, s) /\ (h > 0 => a = d)
    BY <1>18
  <2> HIDE DEF a
  <2>3. Upward(0, a) \o Upward(d, h) = Upward(0, a + h)
    BY <2>1, <2>2, NumbersGoOn
  <2>4. Upward(0, a + h) \in Seq(Nat)
    BY <2>1, NumbersGoOn
  <2>5. console.steps = Upward(0, a) /\ StepsIn(arrived) = Upward(d, h)
    BY <1>17, <1>20 DEF a
  <2>6. QED
    BY <2>2, <2>3, <2>4, <2>5
<1>22. /\ console'.steps = console.steps \o StepsIn(arrived)
       /\ console'.result = (console.result \/ \E i \in DOMAIN arrived : arrived[i].kind = "result")
       /\ console'.isRunning = console.isRunning /\ console'.error = console.error
  BY <1>2 DEF StreamInv, StreamTyped
<1>23. StreamTyped'
  <2> DEFINE x == console.steps \o StepsIn(arrived)
             y == (console.result \/ \E i \in DOMAIN arrived : arrived[i].kind = "result")
  <2>1. console \in [steps : Seq(Nat), result : BOOLEAN, isRunning : BOOLEAN, error : BOOLEAN,
                     asked : Nat]
    BY DEF StreamInv, StreamTyped
  <2>2. x \in Seq(Nat)
    BY <1>21
  <2>3. y \in BOOLEAN
    OBVIOUS
  <2>4. console' = [console EXCEPT !.steps = x, !.result = y]
    BY <1>2
  <2> HIDE DEF x, y
  <2>5. console' \in [steps : Seq(Nat), result : BOOLEAN, isRunning : BOOLEAN, error : BOOLEAN,
                      asked : Nat]
    BY ONLY <2>1, <2>2, <2>3, <2>4
  <2>6. QED
    BY <1>2, <1>5, <1>11, <2>5 DEF StreamInv, StreamTyped
<1>24. ReadUpTo(d + q)'
  <2>1. run'.steps = s /\ run'.stage = run.stage
    BY <1>2 DEF s
  <2>2. console'.steps = Upward(0, Lesser(d + q, run'.steps))
    BY <1>21, <1>22, <2>1
  <2>3. console'.result <=> d + q > run'.steps
    BY <1>18, <1>19, <1>20, <1>22, <2>1
  <2>4. Len(buffer') < FrameCells
    BY <1>9, <1>11
  <2>5. /\ Upto(d) + Len(buffer) + Len(wire) <= Upto(run.steps + 2)
        /\ run.stage \in {"requested", "started", "running"} =>
             Upto(d) + Len(buffer) + Len(wire) = Upto(run.steps)
        /\ run.stage = "closed" => Upto(d) + Len(buffer) + Len(wire) = Upto(run.steps + 2)
    BY <1>3 DEF ReadUpTo
  <2>6. QED
    BY <1>2, <1>13, <1>14, <2>1, <2>2, <2>3, <2>4, <2>5 DEF ReadUpTo, s
<1>25. d + q \in Nat
  OBVIOUS
<1>26. console'.isRunning /\ ~console'.error /\ run'.stage # "none" /\ run'.steps <= MaxSteps
       /\ run'.emitted = run'.steps /\ (run'.stage \in {"requested", "started"} => run'.steps = 0)
  BY <1>1, <1>2, <1>22 DEF StreamInv, s
<1>27. (\E e \in Nat : ReadUpTo(e))'
  BY <1>24, <1>25
<1>28. QED
  BY <1>23, <1>26, <1>27 DEF StreamInv

LEMMA StreamInvIsKept ==
  ASSUME StreamAssumption, StreamInv, [StreamNext]_streamVars PROVE StreamInv'
<1>1. CASE Submit
  BY <1>1, SubmitKeeps
<1>2. CASE Respond
  BY <1>2, RespondKeeps
<1>3. CASE Refuse
  BY <1>3, RefuseKeeps
<1>4. CASE Snapshot
  BY <1>4, SnapshotKeeps
<1>5. CASE Complete
  BY <1>5, CompleteKeeps
<1>6. ASSUME NEW kept \in 0 .. Len(wire), Break(kept) PROVE StreamInv'
  BY <1>6, BreakKeeps
<1>7. ASSUME NEW n \in 1 .. Len(wire), Read(n) PROVE StreamInv'
  BY <1>7, ReadKeeps
<1>8. CASE ReadEnd
  BY <1>8, ReadEndKeeps
<1>9. CASE ReadBreak
  BY <1>9, ReadBreakKeeps
<1>10. CASE UNCHANGED streamVars
  <2>1. run' = run /\ wire' = wire /\ buffer' = buffer /\ console' = console
    BY <1>10 DEF streamVars
  <2>2. StreamTyped'
    BY <2>1 DEF StreamInv, StreamTyped
  <2>3. StreamIsWhole' <=> StreamIsWhole
    BY <2>1 DEF StreamIsWhole
  <2>4. \A d \in Nat : ReadUpTo(d)' <=> ReadUpTo(d)
    BY <2>1 DEF ReadUpTo
  <2>5. QED
    BY <2>1, <2>2, <2>3, <2>4 DEF StreamInv
<1>11. QED
  BY <1>1, <1>2, <1>3, <1>4, <1>5, <1>6, <1>7, <1>8, <1>9, <1>10 DEF StreamNext

\* However the bytes of a run are split over reads and wherever the response breaks
\* off, for any number of steps and any length of a frame, the console shows the steps
\* of the question it was asked last, each once, in their order and none skipped, a
\* result only below all of them, and a run that is over its result or an error.
THEOREM StreamStaysWhole == StreamSpec => []StreamIsWhole
<1>1. StreamInit => StreamInv
  BY StreamStarts
<1>2. StreamInv /\ [StreamNext]_streamVars => StreamInv'
  BY StreamAssumption, StreamInvIsKept
<1>3. StreamInv => StreamIsWhole
  <2> SUFFICES ASSUME StreamInv PROVE StreamIsWhole
    OBVIOUS
  <2>1. CASE ~console.isRunning
    BY <2>1 DEF StreamInv
  <2>2. CASE console.isRunning
    <3>1. PICK d \in Nat : ReadUpTo(d)
      BY <2>2 DEF StreamInv
    <3>2. StreamTyped /\ ~console.error
      BY <2>2 DEF StreamInv
    <3>3. QED
      BY <2>2, <3>1, <3>2, ShownIsWhole DEF StreamIsWhole
  <2>3. QED
    BY <2>1, <2>2
<1>4. QED
  BY <1>1, <1>2, <1>3, PTL DEF StreamSpec

=================================================================================
