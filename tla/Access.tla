------------------------------- MODULE Access -------------------------------
(***************************************************************************)
(* Acl (src/src/auth/acl.rs), the users and the rules they are configured  *)
(* by, and AuthManager (src/src/auth/manager.rs), which authenticates and  *)
(* creates users and blocks the ones with too many failures.  A section    *)
(* under a lock is one step.  AuthManager keeps the lock on the ACL while  *)
(* a password is verified on another thread; it is a tokio RwLock, which   *)
(* lets no reader pass a writer that waits.                                *)
(*                                                                         *)
(* A glob pattern is the set of names that it matches, a category mask the *)
(* set of its categories.                                                  *)
(***************************************************************************)
EXTENDS Integers, Sequences, FiniteSets, SequencesExt

CONSTANTS
    AclUsers,      \* user names
    Passwords,     \* passwords; a verified hash is the password it was made from
    Categories,    \* command categories
    AclCommands,   \* commands that have an index
    Names,         \* keys, standing for channels as well
    MaxRules,      \* bound: rules of one acl_setuser
    MaxAgain,      \* bound: rules of one for a user that is there already
    Tasks,         \* tasks that call AuthManager
    MaxFails,      \* MAX_FAILS
    BlockDuration, \* BLOCK_DURATION
    MaxClock       \* bound: the clock

VARIABLES
    users,     \* user -> AclUser, for the users of the map
    applied,   \* user -> the rules it was configured by
    failures,  \* user -> <<count, time of the first failure>>
    task,      \* task -> what is left of its call
    queue,     \* the tasks that wait for the lock on the ACL
    clock

accessVars == <<users, applied, failures, task, queue, clock>>

Returned == <<"done">>
BadGlob == {"["}                \* a pattern that Glob::new refuses
NoCommand == "no index"         \* lookup_cmd_idx of an unknown command

-----------------------------------------------------------------------------
(* Users and rules                                                         *)

(* AclUser::new: everything is allowed and no password is needed           *)
NewUser == [enabled |-> TRUE, hashes |-> {}, cats |-> Categories, allowed |-> {},
            denied |-> {}, keys |-> <<Names>>, denyKeys |-> <<>>]

ResetRules == [enabled |-> FALSE, hashes |-> {}, cats |-> {}, allowed |-> {},
               denied |-> {}, keys |-> <<>>, denyKeys |-> <<>>]

(* The rules that from_str accepts, <<"unknown">> being one it refuses.    *)
(* Channel patterns are treated as key patterns are.                       *)
Rules ==
    {<<"on">>, <<"off">>, <<"nopass">>, <<"unknown">>}
        \cup {<<"hash", p>> : p \in Passwords}
        \cup ({"allowCategory", "denyCategory"} \X SUBSET Categories)
        \cup ({"allowCommand", "denyCommand"} \X AclCommands)
        \cup ({"allowKey", "denyKey"} \X (SUBSET Names \cup {BadGlob}))

BadRule(r) == r[1] \in {"allowKey", "denyKey"} /\ r[2] = BadGlob

LastDenyWins(user, r) ==
    CASE r[1] = "on" -> [user EXCEPT !.enabled = TRUE]
      [] r[1] = "off" -> [user EXCEPT !.enabled = FALSE]
      [] r[1] = "hash" -> [user EXCEPT !.hashes = @ \cup {r[2]}]
      [] r[1] = "allowCategory" -> [user EXCEPT !.cats = @ \cup r[2]]
      [] r[1] = "denyCategory" -> [user EXCEPT !.cats = @ \ r[2]]
      [] r[1] = "allowCommand" -> [user EXCEPT !.allowed = @ \cup {r[2]},
                                               !.denied = @ \ {r[2]}]
      [] r[1] = "denyCommand" -> [user EXCEPT !.denied = @ \cup {r[2]}]
      [] r[1] = "allowKey" -> [user EXCEPT !.keys = Append(@, r[2])]
      [] r[1] = "denyKey" -> [user EXCEPT !.denyKeys = Append(@, r[2])]
      [] OTHER -> user

ApplyRule(user, r) ==
    CASE r[1] = "on" -> [user EXCEPT !.enabled = TRUE]
      [] r[1] = "off" -> [user EXCEPT !.enabled = FALSE]
      [] r[1] = "hash" -> [user EXCEPT !.hashes = @ \cup {r[2]}]
      [] r[1] = "allowCategory" -> [user EXCEPT !.cats = @ \cup r[2]]
      [] r[1] = "denyCategory" -> [user EXCEPT !.cats = @ \ r[2]]
      [] r[1] = "allowCommand" -> [user EXCEPT !.allowed = @ \cup {r[2]}]
      [] r[1] = "denyCommand" -> [user EXCEPT !.denied = @ \cup {r[2]}]
      [] r[1] = "allowKey" -> [user EXCEPT !.keys = Append(@, r[2])]
      [] r[1] = "denyKey" -> [user EXCEPT !.denyKeys = Append(@, r[2])]
      [] OTHER -> user

(* The rules before the first bad pattern are applied, and stay.           *)
GoodPrefix(rules) ==
    SelectInSeq(rules, BadRule) - 1
Applied(rules) ==
    IF GoodPrefix(rules) < 0 THEN rules ELSE SubSeq(rules, 1, GoodPrefix(rules))

Parses(rules) == \A i \in DOMAIN rules : rules[i] # <<"unknown">>

Configured(rules) == FoldLeft(ApplyRule, ResetRules, Applied(rules))

Put(f, x, y) == [z \in DOMAIN f \cup {x} |-> IF z = x THEN y ELSE f[z]]
Delete(f, x) == [z \in DOMAIN f \ {x} |-> f[z]]

CheckIdx(user, cat, cmd) ==
    /\ user.enabled
    /\ cmd = NoCommand \/ cmd \notin user.denied
    /\ \/ cat \subseteq user.cats
       \/ cmd # NoCommand /\ cmd \in user.allowed

IsMatch(patterns, name) == \E i \in DOMAIN patterns : name \in patterns[i]

CheckKey(user, name) ==
    /\ user.enabled
    /\ ~IsMatch(user.denyKeys, name)
    /\ user.keys = <<>> \/ IsMatch(user.keys, name)

-----------------------------------------------------------------------------
(* The operations of Acl, called directly.                                 *)

AclSetuser(u, rules) ==
    /\ Parses(rules)
    /\ users' = Put(users, u, Configured(rules))
    /\ applied' = Put(applied, u, Applied(rules))
    /\ UNCHANGED <<failures, task, queue, clock>>

AclDeluser(u) ==
    /\ u \in DOMAIN users
    /\ users' = Delete(users, u)
    /\ applied' = Delete(applied, u)
    /\ UNCHANGED <<failures, task, queue, clock>>

AclInit ==
    /\ users = << >> /\ applied = << >> /\ failures = << >>
    /\ task = [t \in Tasks |-> Returned] /\ queue = << >>
    /\ clock = 0

AclNext ==
    \E u \in AclUsers :
        \/ AclDeluser(u)
        \/ \E rules \in SeqOf(Rules, IF u \in DOMAIN users THEN MaxAgain ELSE MaxRules) :
               AclSetuser(u, rules)

-----------------------------------------------------------------------------
(* AuthManager.  A task at "verify" or "finish" has the lock on the ACL for *)
(* reading, one at "configure" for writing; the lock is given in the order *)
(* of arrival.                                                             *)

Readers == {t \in Tasks : task[t][1] \in {"verify", "finish"}}
Writers == {t \in Tasks : task[t][1] = "configure"}

Go(t, where) == task' = [task EXCEPT ![t] = where]
Wait(t, where) == Go(t, where) /\ queue' = Append(queue, t)
Granted(t) == queue # << >> /\ Head(queue) = t /\ Writers = {} /\ queue' = Tail(queue)

Elapsed(u) == clock - failures[u][2]

(* The first section: the block, and the end of it.                        *)
Authenticate(t, u, pw) ==
    /\ task[t] = Returned
    /\ IF u \in DOMAIN failures /\ Elapsed(u) < BlockDuration
       THEN failures[u][1] < MaxFails /\ failures' = failures
       ELSE failures' = Delete(failures, u)
    /\ Wait(t, <<"read", u, pw>>)
    /\ UNCHANGED <<users, applied, clock>>

(* The lock on the ACL is taken and the hashes copied.                     *)
ReadUser(t) ==
    /\ task[t][1] = "read"
    /\ Granted(t)
    /\ LET u == task[t][2] IN
       IF u \in DOMAIN users
       THEN Go(t, <<"verify", u, task[t][3], users[u].hashes>>)
       ELSE Go(t, Returned)
    /\ UNCHANGED <<users, applied, failures, clock>>

(* verify_password, on a blocking thread; no hash, no password             *)
Verify(t) ==
    /\ task[t][1] = "verify"
    /\ Go(t, <<"finish", task[t][2],
               task[t][4] = {} \/ task[t][3] \in task[t][4]>>)
    /\ UNCHANGED <<users, applied, failures, queue, clock>>

Counted(u) == IF u \in DOMAIN failures THEN <<failures[u][1] + 1, failures[u][2]>>
              ELSE <<1, clock>>

Finish(t) ==
    /\ task[t][1] = "finish"
    /\ LET u == task[t][2] IN
       failures' = IF task[t][3] THEN Delete(failures, u) ELSE Put(failures, u, Counted(u))
    /\ Go(t, Returned)
    /\ UNCHANGED <<users, applied, queue, clock>>

UserRules(pw, permissions) == <<<<"hash", pw>>, <<"on">>>> \o permissions

CreateUser(t, u, pw, permissions) ==
    /\ task[t] = Returned
    /\ Wait(t, <<"write", u, UserRules(pw, permissions)>>)
    /\ UNCHANGED <<users, applied, failures, clock>>

(* With the write lock on the ACL: acl_setuser puts a new user in the map  *)
(* and configures it afterwards, under the lock of the user.               *)
InsertUser(t) ==
    LET u == task[t][2]
        rules == task[t][3] IN
    /\ task[t][1] = "write"
    /\ Granted(t) /\ Readers = {}
    /\ IF u \in DOMAIN users \/ ~Parses(rules)
       THEN Go(t, Returned) /\ UNCHANGED <<users, applied>>
       ELSE /\ users' = Put(users, u, NewUser)
            /\ applied' = Put(applied, u, <<>>)
            /\ Go(t, <<"configure", u, rules>>)
    /\ UNCHANGED <<failures, clock>>

ConfigureUser(t) ==
    LET u == task[t][2]
        rules == task[t][3] IN
    /\ task[t][1] = "configure"
    /\ users' = Put(users, u, Configured(rules))
    /\ applied' = Put(applied, u, Applied(rules))
    /\ Go(t, Returned)
    /\ UNCHANGED <<failures, queue, clock>>

PassTime ==
    /\ clock < MaxClock
    /\ clock' = clock + 1
    /\ UNCHANGED <<users, applied, failures, task, queue>>

(* from_config: the user "default" when a password is required, and the    *)
(* users of the configuration.  +@all is a category that parse_category    *)
(* does not know, and grants none.                                         *)
FromConfig(pw, nopass, enabled) ==
    (IF nopass THEN <<>> ELSE <<<<"hash", pw>>>>)
        \o <<IF enabled THEN <<"on">> ELSE <<"off">>>>
        \o (IF nopass THEN <<<<"nopass">>>> ELSE <<>>)
        \o <<<<"allowKey", Names>>, <<"allowCategory", {}>>>>

AuthInit ==
    \E S \in SUBSET AclUsers, pw \in Passwords, nopass, enabled \in BOOLEAN :
        /\ applied = [u \in S |-> FromConfig(pw, nopass, enabled)]
        /\ users = [u \in S |-> Configured(FromConfig(pw, nopass, enabled))]
        /\ failures = << >>
        /\ task = [t \in Tasks |-> Returned] /\ queue = << >>
        /\ clock = 0

AuthStep(t) ==
    ReadUser(t) \/ Verify(t) \/ Finish(t) \/ InsertUser(t) \/ ConfigureUser(t)

AuthNext ==
    \/ PassTime
    \/ \E t \in Tasks :
          \/ AuthStep(t)
          \/ \E u \in AclUsers, pw \in Passwords :
                \/ Authenticate(t, u, pw)
                \/ \E permissions \in {<<>>, <<<<"denyKey", BadGlob>>>>, <<<<"unknown">>>>} :
                      CreateUser(t, u, pw, permissions)

AuthFair == \A t \in Tasks : WF_accessVars(AuthStep(t))

-----------------------------------------------------------------------------
(* What a list of rules grants, said without their order of application.   *)

SetBy(rules, on, off) ==
    \E i \in DOMAIN rules : rules[i] \in on /\ \A j \in (i + 1)..Len(rules) : rules[j] \notin off
Occurs(rules, r) == \E i \in DOMAIN rules : rules[i] = r
WithCategory(kind, c) == {<<kind, C>> : C \in {D \in SUBSET Categories : c \in D}}
Matching(kind, name) == {<<kind, P>> : P \in {Q \in SUBSET Names : name \in Q}}

On(rules) == SetBy(rules, {<<"on">>}, {<<"off">>})

GrantsCommand(rules, cat, cmd) ==
    /\ On(rules)
    /\ ~Occurs(rules, <<"denyCommand", cmd>>)
    /\ \/ \A c \in cat : SetBy(rules, WithCategory("allowCategory", c), WithCategory("denyCategory", c))
       \/ Occurs(rules, <<"allowCommand", cmd>>)

DeniesKey(rules, name) ==
    ~On(rules) \/ \E r \in Matching("denyKey", name) : Occurs(rules, r)
HasKeyRule(rules) == \E P \in SUBSET Names : Occurs(rules, <<"allowKey", P>>)
GrantsKey(rules, name) ==
    ~DeniesKey(rules, name) /\ \E r \in Matching("allowKey", name) : Occurs(rules, r)

(* What authorize_command and authorize_key answer follows from the rules  *)
(* that a user was configured by: the last of on and off counts, the last  *)
(* rule on a category counts, but a denied command or key is denied        *)
(* wherever its rule stands.  It holds of a user whose configuration       *)
(* failed at a bad pattern as well, for the rules in front of it.  Nothing *)
(* is said of the keys of a user without a key pattern that no rule denies:*)
(* check_key allows them (acl.rs:248), and the comment in reset_rules says *)
(* that it returns false until a pattern is added (acl.rs:289).            *)
AsConfigured ==
    \A u \in DOMAIN users : users[u] # NewUser =>
        /\ \A cat \in SUBSET Categories, cmd \in AclCommands \cup {NoCommand} :
              CheckIdx(users[u], cat, cmd) <=> GrantsCommand(applied[u], cat, cmd)
        /\ \A name \in Names :
              /\ DeniesKey(applied[u], name) => ~CheckKey(users[u], name)
              /\ HasKeyRule(applied[u]) =>
                    (CheckKey(users[u], name) <=> GrantsKey(applied[u], name))

(* A user without a key pattern may use no key: "check_key/check_channel   *)
(* всегда вернут false, пока не добавятся новые паттерны" (acl.rs:291).    *)
NoPatternNoKey ==
    \A u \in DOMAIN users, name \in Names :
        (users[u] # NewUser /\ ~HasKeyRule(applied[u])) => ~CheckKey(users[u], name)

InFlight(u) == {t \in Tasks : task[t][1] \in {"read", "verify", "finish"} /\ task[t][2] = u}

(* However many tasks try passwords for a user at the same time, the       *)
(* attempts that fail before the block ends exceed the limit by at most    *)
(* the attempts that had passed the check when it was reached.             *)
FailuresBounded ==
    \A u \in DOMAIN failures :
        failures[u][1] + Cardinality(InFlight(u)) <= MaxFails - 1 + Cardinality(Tasks)

(* No task verifies a password against a user that acl_setuser has put in  *)
(* the map and not configured yet, which would need no password.           *)
NewUserUnseen ==
    \A t \in Tasks : task[t][1] = "verify" /\ task[t][4] = {} =>
        users[task[t][2]] # NewUser /\ ~\E i \in DOMAIN applied[task[t][2]] :
            applied[task[t][2]][i][1] = "hash"

(* A user made by create_user needs a password also when a bad pattern     *)
(* among its permissions made create_user fail half-way.                   *)
PasswordFirst ==
    [][\A t \in Tasks : ConfigureUser(t) => users'[task[t][2]].hashes # {}]_accessVars

(* What users may do is what they were configured to, seen by every task:  *)
(* no answer from an unconfigured or half-configured user, and attempts at *)
(* passwords are bounded (acl.rs, auth/manager.rs).                        *)
AccessSafe == [](AsConfigured /\ FailuresBounded /\ NewUserUnseen) /\ PasswordFirst

(* Every call of AuthManager returns: a task that holds the ACL for        *)
(* reading takes no lock that a task waiting to write it could keep from   *)
(* it.                                                                     *)
AuthCallsReturn == \A t \in Tasks : task[t] # Returned ~> task[t] = Returned
=============================================================================
