------------------------------- MODULE Accounts -------------------------------
(* Registration, access tokens and API keys (services/user_service.py,           *)
(* services/api_key_service.py, core/security.py, api/v1/deps.py,                *)
(* api/v1/endpoints/auth.py).  Requests run side by side in one database: every  *)
(* statement and every commit of a request is a step.  Passwords and digests are *)
(* left out: a request that presents a credential presents one that was issued,  *)
(* and the rate limiter, a library, sits in front of what is modelled.           *)
EXTENDS Naturals, FiniteSets

CONSTANTS
    Address,           \* e-mail addresses
    Request,           \* bound: the requests of one behaviour, each used once
    OldUser, OldKey,   \* an account and a key issued before it begins
    OldAddress,
    Lifetime,          \* of an access token
    MaxTime,           \* bound: ticks of the clock
    MaxFaults,         \* bound: requests that die or lose the database
    None

(* The endpoints that touch these tables.                                        *)
Kind == {"register", "login", "create_key", "delete_key", "me"}

ASSUME AccountsAssumption ==
    /\ OldAddress \in Address
    /\ OldUser \notin Request /\ OldKey \notin Request /\ None \notin Request
    /\ None # OldUser /\ None # OldKey /\ None \notin Address \cup Kind
    /\ Lifetime \in Nat /\ MaxTime \in Nat /\ MaxFaults \in Nat

(* A user and a key are named by the request that created them.                  *)
User == Request \cup {OldUser}
Key  == Request \cup {OldKey}

VARIABLES
    users,        \* committed rows of users
    email,        \* [User -> Address]: users.email
    workspaces,   \* owners of the committed default workspaces, one entry each
    keys,         \* committed rows of api_keys
    owner,        \* [Key -> User]: api_keys.user_id
    revoked,      \* keys with revoked_at set
    tokens,       \* access tokens handed out: <<user, expiry>>
    at, kind,     \* what each request is doing, and which endpoint it called
    arg,          \* the address or the key in its path or body
    token, key,   \* the credentials it carries
    seen,         \* the state of its API key when it was looked up
    caller,       \* the user it was authenticated as
    reply,
    now, faults,
    dead          \* history: the keys known to be revoked when the request arrived

dbVars  == <<users, email, workspaces, keys, owner, revoked>>
reqVars == <<at, kind, arg, token, key, seen, caller, reply, dead>>
accountVars    == <<dbVars, tokens, reqVars, now, faults>>

RequestStep == {"new", "check", "insert", "commit", "auth", "touch", "load", "run", "refresh", "done"}

AccountsTypeOK ==
    /\ users \subseteq User /\ workspaces \subseteq User
    /\ email \in [User -> Address \cup {None}]
    /\ keys \subseteq Key /\ revoked \subseteq Key
    /\ owner \in [Key -> User \cup {None}]
    /\ tokens \subseteq User \X (0 .. MaxTime + Lifetime)
    /\ at \in [Request -> RequestStep]
    /\ kind \in [Request -> Kind \cup {None}]
    /\ arg \in [Request -> Address \cup Key \cup {None}]
    /\ token \in [Request -> tokens \cup {<<>>}]
    /\ key \in [Request -> Key \cup {None}]
    /\ seen \in [Request -> BOOLEAN]
    /\ caller \in [Request -> User \cup {None}]
    /\ reply \in [Request -> {0, 200, 201, 204, 401, 404, 409, 500}]
    /\ now \in 0 .. MaxTime /\ faults \in 0 .. MaxFaults
    /\ dead \in [Request -> SUBSET Key]

AccountsInit ==
    /\ users = {OldUser} /\ workspaces = {OldUser}
    /\ email = [u \in User |-> IF u = OldUser THEN OldAddress ELSE None]
    /\ keys = {OldKey} /\ revoked = {}
    /\ owner = [k \in Key |-> IF k = OldKey THEN OldUser ELSE None]
    /\ tokens = {}
    /\ at = [r \in Request |-> "new"]
    /\ kind = [r \in Request |-> None]
    /\ arg = [r \in Request |-> None]
    /\ token = [r \in Request |-> <<>>]
    /\ key = [r \in Request |-> None]
    /\ seen = [r \in Request |-> FALSE]
    /\ caller = [r \in Request |-> None]
    /\ reply = [r \in Request |-> 0]
    /\ now = 0 /\ faults = 0
    /\ dead = [r \in Request |-> {}]

-------------------------------------------------------------------------------
Goto(r, step) == at' = [at EXCEPT ![r] = step]

Reply(r, status) ==
    /\ reply' = [reply EXCEPT ![r] = status]
    /\ Goto(r, "done")

(* The keys whose revocation was acknowledged.                                   *)
Dead == {arg[q] : q \in {o \in Request : kind[o] = "delete_key" /\ reply[o] = 204}}

(* A request for an endpoint that needs no login.                                *)
Anonymous(r, k, a) ==
    /\ at[r] = "new" /\ k \in {"register", "login"}
    /\ kind' = [kind EXCEPT ![r] = k]
    /\ arg' = [arg EXCEPT ![r] = a]
    /\ dead' = [dead EXCEPT ![r] = Dead]
    /\ Goto(r, "check")
    /\ UNCHANGED <<dbVars, tokens, token, key, seen, caller, reply, now, faults>>

(* One with a bearer token, an API key, or both.                                 *)
Authenticated(r, k, t, x, target) ==
    /\ at[r] = "new"
    /\ k \in {"create_key", "delete_key", "me"}
    /\ t # <<>> \/ x # None
    /\ (k = "delete_key") <=> (target # None)
    /\ kind' = [kind EXCEPT ![r] = k]
    /\ arg' = [arg EXCEPT ![r] = target]
    /\ token' = [token EXCEPT ![r] = t]
    /\ key' = [key EXCEPT ![r] = x]
    /\ dead' = [dead EXCEPT ![r] = Dead]
    /\ Goto(r, "auth")
    /\ UNCHANGED <<dbVars, tokens, seen, caller, reply, now, faults>>

-------------------------------------------------------------------------------
(* register_user.                                                                *)

Registered(a) == {u \in users : email[u] = a}

(* Mutant: a login without an account gets a token as well.                      *)
CheckAddress_NoAccount(r) ==
    /\ at[r] = "check"
    /\ IF kind[r] = "register" /\ Registered(arg[r]) = {}
       THEN Goto(r, "insert") /\ UNCHANGED <<tokens, reply>>
       ELSE /\ tokens' = tokens \cup {<<u, now + Lifetime>> : u \in
                            IF Registered(arg[r]) = {} THEN {None} ELSE Registered(arg[r])}
            /\ Reply(r, 200)
    /\ UNCHANGED <<dbVars, kind, arg, token, key, seen, caller, now, faults, dead>>

(* get_user_by_email, for a registration and for a login with the right password.*)
CheckAddress(r) ==
    /\ at[r] = "check"
    /\ IF kind[r] = "register"
       THEN IF Registered(arg[r]) # {} THEN Reply(r, 409) /\ UNCHANGED tokens
            ELSE Goto(r, "insert") /\ UNCHANGED <<tokens, reply>>
       ELSE IF Registered(arg[r]) = {} THEN Reply(r, 401) /\ UNCHANGED tokens
            ELSE /\ \E u \in Registered(arg[r]) : tokens' = tokens \cup {<<u, now + Lifetime>>}
                 /\ Reply(r, 200)
    /\ UNCHANGED <<dbVars, kind, arg, token, key, seen, caller, now, faults, dead>>

(* Mutant: the index on users.email is not unique.                               *)
InsertUser_AnyAddress(r) ==
    /\ at[r] = "insert"
    /\ email' = [email EXCEPT ![r] = arg[r]]
    /\ Goto(r, "commit")
    /\ UNCHANGED <<users, workspaces, keys, owner, revoked, tokens, kind, arg, token, key,
                   seen, caller, reply, now, faults, dead>>

(* The flush: the unique index makes it wait for a transaction that has inserted *)
(* the address, and refuses it once that is committed; nothing catches the error.*)
InsertUser(r) ==
    /\ at[r] = "insert"
    /\ \A o \in Request : at[o] = "commit" => email[o] # arg[r]
    /\ IF Registered(arg[r]) # {} THEN Reply(r, 500) /\ UNCHANGED email
       ELSE /\ email' = [email EXCEPT ![r] = arg[r]]
            /\ Goto(r, "commit") /\ UNCHANGED reply
    /\ UNCHANGED <<users, workspaces, keys, owner, revoked, tokens, kind, arg, token, key,
                   seen, caller, now, faults, dead>>

(* Mutant: the account is committed before its workspace is added.               *)
CommitUser_First(r) ==
    /\ at[r] = "commit"
    /\ IF r \in users
       THEN workspaces' = workspaces \cup {r} /\ Goto(r, "refresh") /\ UNCHANGED users
       ELSE users' = users \cup {r} /\ UNCHANGED <<workspaces, at>>
    /\ UNCHANGED <<email, keys, owner, revoked, tokens, kind, arg, token, key, seen,
                   caller, reply, now, faults, dead>>

(* The account and its "Personal" workspace become visible together.             *)
CommitUser(r) ==
    /\ at[r] = "commit"
    /\ users' = users \cup {r}
    /\ workspaces' = workspaces \cup {r}
    /\ Goto(r, "refresh")
    /\ UNCHANGED <<email, keys, owner, revoked, tokens, kind, arg, token, key, seen,
                   caller, reply, now, faults, dead>>

(* The row just committed is read back, which is one more call that can fail:    *)
(* the caller is told so although the account, or the key, exists.               *)
Refresh(r) ==
    /\ at[r] = "refresh"
    /\ Reply(r, 201)
    /\ UNCHANGED <<dbVars, tokens, kind, arg, token, key, seen, caller, now, faults, dead>>

-------------------------------------------------------------------------------
(* get_current_user.                                                             *)

(* A bearer token decides alone, even when a key came with it: expired it is     *)
(* refused.                                                                      *)
ByToken(r) ==
    /\ at[r] = "auth" /\ token[r] # <<>>
    /\ IF now >= token[r][2] \/ token[r][1] \notin users
       THEN Reply(r, 401) /\ UNCHANGED caller
       ELSE /\ caller' = [caller EXCEPT ![r] = token[r][1]]
            /\ Goto(r, "run") /\ UNCHANGED reply
    /\ UNCHANGED <<dbVars, tokens, kind, arg, token, key, seen, now, faults, dead>>

(* get_user_by_api_key: the row is read, ...                                     *)
ByKey(r) ==
    /\ at[r] = "auth" /\ token[r] = <<>>
    /\ IF key[r] \notin keys \/ key[r] \in revoked
       THEN Reply(r, 401) /\ UNCHANGED seen
       ELSE /\ seen' = [seen EXCEPT ![r] = TRUE]
            /\ Goto(r, "touch") /\ UNCHANGED reply
    /\ UNCHANGED <<dbVars, tokens, kind, arg, token, key, caller, now, faults, dead>>

(* Mutant: the row is written back as it was read.                               *)
Touch_WholeRow(r) ==
    /\ at[r] = "touch"
    /\ revoked' = revoked \ {key[r]}
    /\ Goto(r, "load")
    /\ UNCHANGED <<users, email, workspaces, keys, owner, tokens, kind, arg, token, key,
                   seen, caller, reply, now, faults, dead>>

(* ... last_used_at alone is written, ...                                        *)
Touch(r) ==
    /\ at[r] = "touch"
    /\ Goto(r, "load")
    /\ UNCHANGED <<dbVars, tokens, kind, arg, token, key, seen, caller, reply, now,
                   faults, dead>>

(* ... and the user is loaded in a transaction of its own.                       *)
LoadUser(r) ==
    /\ at[r] = "load"
    /\ caller' = [caller EXCEPT ![r] = owner[key[r]]]
    /\ Goto(r, "run")
    /\ UNCHANGED <<dbVars, tokens, kind, arg, token, key, seen, reply, now, faults, dead>>

-------------------------------------------------------------------------------
(* The endpoints.                                                                *)

ReadMe(r) ==
    /\ at[r] = "run" /\ kind[r] = "me"
    /\ Reply(r, 200)
    /\ UNCHANGED <<dbVars, tokens, kind, arg, token, key, seen, caller, now, faults, dead>>

CreateKey(r) ==
    /\ at[r] = "run" /\ kind[r] = "create_key"
    /\ keys' = keys \cup {r}
    /\ owner' = [owner EXCEPT ![r] = caller[r]]
    /\ Goto(r, "refresh")
    /\ UNCHANGED <<users, email, workspaces, revoked, tokens, kind, arg, token, key, seen,
                   caller, reply, now, faults, dead>>

(* Mutant: the key is looked up by its id alone.                                 *)
RevokeKey_OfAnyone(r) ==
    /\ at[r] = "run" /\ kind[r] = "delete_key"
    /\ IF arg[r] \notin keys THEN Reply(r, 404) /\ UNCHANGED revoked
       ELSE revoked' = revoked \cup {arg[r]} /\ Reply(r, 204)
    /\ UNCHANGED <<users, email, workspaces, keys, owner, tokens, kind, arg, token, key,
                   seen, caller, now, faults, dead>>

RevokeKey(r) ==
    /\ at[r] = "run" /\ kind[r] = "delete_key"
    /\ IF arg[r] \notin keys \/ owner[arg[r]] # caller[r]
       THEN Reply(r, 404) /\ UNCHANGED revoked
       ELSE revoked' = revoked \cup {arg[r]} /\ Reply(r, 204)
    /\ UNCHANGED <<users, email, workspaces, keys, owner, tokens, kind, arg, token, key,
                   seen, caller, now, faults, dead>>

-------------------------------------------------------------------------------
(* The database goes away or the process dies: what is not committed is undone.  *)
RequestFails(r) ==
    /\ at[r] \notin {"new", "done"}
    /\ faults < MaxFaults
    /\ faults' = faults + 1
    /\ email' = IF at[r] = "commit" /\ r \notin users
                THEN [email EXCEPT ![r] = None] ELSE email
    /\ Reply(r, 500)
    /\ UNCHANGED <<users, workspaces, keys, owner, revoked, tokens, kind, arg, token, key,
                   seen, caller, now, dead>>

Tick ==
    /\ now < MaxTime
    /\ now' = now + 1
    /\ UNCHANGED <<dbVars, tokens, reqVars, faults>>

AccountsNext ==
    \/ \E r \in Request :
         \/ \E k \in {"register", "login"}, a \in Address : Anonymous(r, k, a)
         \/ \E k \in Kind, t \in tokens \cup {<<>>}, x \in keys \cup {None},
               target \in keys \cup {None} : Authenticated(r, k, t, x, target)
         \/ CheckAddress(r) \/ InsertUser(r) \/ CommitUser(r) \/ Refresh(r)
         \/ ByToken(r) \/ ByKey(r) \/ Touch(r) \/ LoadUser(r)
         \/ ReadMe(r) \/ CreateKey(r) \/ RevokeKey(r)
         \/ RequestFails(r)
    \/ Tick

AccountsSpec == AccountsInit /\ [][AccountsNext]_accountVars

-------------------------------------------------------------------------------
(* Properties.                                                                   *)

(* However registrations of one address interleave, one account has it: the      *)
(* check before the insert does not see to that, the index does.                 *)
OneAccountPerAddress == \A a \in Address : Cardinality(Registered(a)) <= 1

(* An account never exists without the workspace its papers go into, whatever    *)
(* fails between the two inserts of register_user.                               *)
AccountsHaveWorkspace == users = workspaces

(* Of the registrations of a new address that were all answered, without a       *)
(* fault, exactly one was told 201; the others got the conflict or the index's   *)
(* error.                                                                        *)
ExactlyOneWins ==
    \A a \in Address \ {OldAddress} :
        LET rs == {r \in Request : kind[r] = "register" /\ arg[r] = a} IN
        rs # {} /\ faults = 0 /\ (\A r \in rs : at[r] = "done")
            => Cardinality({r \in rs : reply[r] = 201}) = 1

(* A request that arrives after a key was revoked is not let in with it, even    *)
(* while an older request is still in the middle of using the key.               *)
RevocationIsFinal ==
    \A r \in Request :
        at[r] \in {"touch", "load", "run"} /\ token[r] = <<>> => key[r] \notin dead[r]

(* A key is revoked by a request of the user it belongs to, or by none, and what *)
(* is revoked stays so: last_used_at and revoked_at are written by different     *)
(* requests to the same row.                                                     *)
KeysChangeByOwner ==
    [][/\ revoked \subseteq revoked'
       /\ \A k \in revoked' \ revoked :
            \E r \in Request : at[r] = "run" /\ arg[r] = k /\ caller[r] = owner[k]]_accountVars

(* Registration and login leave the tables sound whatever interleaves and fails: *)
(* one account per address and one winner, each account with its workspace, no   *)
(* token for nobody, and no entry for a request that comes with a revoked key.   *)
AccountsAreSound ==
    /\ AccountsTypeOK
    /\ OneAccountPerAddress /\ AccountsHaveWorkspace /\ ExactlyOneWins
    /\ RevocationIsFinal

===============================================================================
