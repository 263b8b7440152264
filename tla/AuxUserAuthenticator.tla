------------------------- MODULE AuxUserAuthenticator -------------------------
(***************************************************************************)
(* AuxUserAuthenticator.authenticate                                       *)
(* (src/aux-server/server/AuxUserAuthenticator.ts).                        *)
(*                                                                         *)
(* authenticate reads the admin channel's files once, decides from that    *)
(* snapshot, and may then await up to two tree.addFile calls (a user file, *)
(* then a token file).  The decisions taken after an await still use the   *)
(* snapshot.  Calls of several devices may be in flight together: slot s   *)
(* holds one call, and MaxInFlight slots exist.                            *)
(*                                                                         *)
(* A file is a record: a user file has aux.username and whether aux.roles  *)
(* holds ADMIN_ROLE; a token file has aux.token.username and aux.token.    *)
(* grantedBy is a history field, not a tag: the grant that authorised the  *)
(* token file, NULL when it was created as the username's first token.     *)
(***************************************************************************)
EXTENDS Naturals, FiniteSets

CONSTANTS
    Users,        \* usernames
    Tokens,       \* device tokens (and grants, which are tokens)
    MaxInFlight,  \* authenticate calls in flight at once
    MaxFiles,     \* bound on the files of the admin channel
    NULL          \* an empty or missing field of a DeviceToken

ASSUME MaxInFlight \in Nat \ {0} /\ MaxFiles \in Nat

VARIABLES
    tree,   \* the files of the admin channel
    slot    \* slot[s]: the authenticate call in slot s

vars == <<tree, slot>>

Slots == 1..MaxInFlight

DeviceTokens == [username : Users \cup {NULL}, token : Tokens \cup {NULL},
                 grant : Tokens \cup {NULL}, isGuest : BOOLEAN]

UserFile == [kind : {"user"}, id : 1..MaxFiles, username : Users, admin : BOOLEAN]
TokenFile == [kind : {"token"}, id : 1..MaxFiles, username : Users, token : Tokens,
              grantedBy : Tokens \cup {NULL}]

Results == {"invalid_token", "invalid_username", "wrong_grant", "wrong_token",
            "success"}

(* The snapshot a call decides from and where it is.  For a call that has  *)
(* returned, pc is "returned" and result what it returned.                 *)
Snapshot == [tokens : BOOLEAN, tokensForUsername : BOOLEAN, grantValid : BOOLEAN]

CallState == [req : DeviceTokens, pc : {"createUser", "createToken", "returned"},
              snap : Snapshot, firstUser : BOOLEAN,
              userFile : UserFile \cup {NULL}, result : Results \cup {NULL},
              roles : SUBSET {"admin", "user"}]

Free == [pc |-> "free"]

TypeOK ==
    /\ tree \subseteq (UserFile \cup TokenFile)
    /\ slot \in [Slots -> CallState \cup {Free}]

Init ==
    /\ tree = {}
    /\ slot = [s \in Slots |-> Free]

-----------------------------------------------------------------------------
UserFiles == {f \in tree : f.kind = "user"}
TokenFiles == {f \in tree : f.kind = "token"}

\* (mutant) an id already in use is handed out again.
NewIdReused == Cardinality(tree)

\* createFile(undefined, ...) gives a new file a fresh id.
NewId == Cardinality(tree) + 1

\* (mutant) users are looked up by aux.token.username, which user files lack.
UserFilesOfWrongTag(u) == {f \in UserFiles : FALSE}

\* userFiles: the files whose aux.username is the token's username.
UserFilesOf(u) == {f \in UserFiles : f.username = u}

\* (mutant) the admins.length === 0 test is left out.
FirstUserAnyAdmins(req) == ~req.isGuest

\* The firstUser argument of _createUserFile: no user has ADMIN_ROLE in its
\* aux.roles, and the device is not a guest.
FirstUser(req) == {f \in UserFiles : f.admin} = {} /\ ~req.isGuest

\* The roles authenticate reports: the user file's aux.roles and USER_ROLE.
Roles(st) == (IF st.userFile.admin THEN {"admin"} ELSE {}) \cup {"user"}

\* (mutant) any token not yet known is registered, grant or not.
AfterUserFileNoGrantCheck(st) ==
    IF st.snap.tokens
    THEN [st EXCEPT !.pc = "returned", !.result = "success", !.roles = Roles(st)]
    ELSE [st EXCEPT !.pc = "createToken"]

\* (mutant) a valid grant is accepted as it is (tokenFile = grantFiles[0]),
\* without a token file for the device's own token.
AfterUserFileGrantAsToken(st) ==
    CASE st.snap.tokens \/ (st.req.grant # NULL /\ st.snap.grantValid) ->
            [st EXCEPT !.pc = "returned", !.result = "success", !.roles = Roles(st)]
      [] ~st.snap.tokensForUsername ->
            [st EXCEPT !.pc = "createToken"]
      [] st.req.grant # NULL ->
            [st EXCEPT !.pc = "returned", !.result = "wrong_grant"]
      [] OTHER ->
            [st EXCEPT !.pc = "returned", !.result = "wrong_token"]

(* The part of authenticate after the user file is known (lines 92-143),   *)
(* run on call state st: either it returns, or it awaits a token file.     *)
AfterUserFile(st) ==
    CASE st.snap.tokens ->
            [st EXCEPT !.pc = "returned", !.result = "success", !.roles = Roles(st)]
      [] ~st.snap.tokensForUsername \/ (st.req.grant # NULL /\ st.snap.grantValid) ->
            [st EXCEPT !.pc = "createToken"]
      [] st.req.grant # NULL ->
            [st EXCEPT !.pc = "returned", !.result = "wrong_grant"]
      [] OTHER ->
            [st EXCEPT !.pc = "returned", !.result = "wrong_token"]

Returned(req, result) ==
    [req |-> req, pc |-> "returned",
     snap |-> [tokens |-> FALSE, tokensForUsername |-> FALSE, grantValid |-> FALSE],
     firstUser |-> FALSE, userFile |-> NULL, result |-> result, roles |-> {}]

\* (mutant) the grant is looked up among every username's token files.
GrantFilesAnyUser(req) == {f \in TokenFiles : f.token = req.grant}

\* grantFiles: the username's token files whose aux.token is the grant.
GrantFiles(req) == {f \in TokenFiles : f.username = req.username /\ f.token = req.grant}

(* The synchronous start of authenticate (lines 44-90): the field checks,  *)
(* the snapshot of users, user files, token files, and admins.  With no    *)
(* user file for the username it awaits _createUserFile.                   *)
authenticate(s, req) ==
    /\ slot[s].pc \in {"free", "returned"}
    /\ Cardinality(tree) < MaxFiles
    /\ \/ /\ req.token = NULL
          /\ slot' = [slot EXCEPT ![s] = Returned(req, "invalid_token")]
       \/ /\ req.token # NULL
          /\ req.username = NULL
          /\ slot' = [slot EXCEPT ![s] = Returned(req, "invalid_username")]
       \/ /\ req.token # NULL /\ req.username # NULL
          /\ LET forUser == {f \in TokenFiles : f.username = req.username}
                 snap == [tokens |-> \E f \in forUser : f.token = req.token,
                          tokensForUsername |-> forUser # {},
                          grantValid |-> GrantFiles(req) # {}]
                 userFiles == UserFilesOf(req.username)
                 st == [req |-> req, pc |-> "createUser", snap |-> snap,
                        firstUser |-> FirstUser(req),
                        userFile |-> NULL, result |-> NULL, roles |-> {}]
             IN \/ /\ userFiles = {}
                   /\ slot' = [slot EXCEPT ![s] = st]
                \/ \E uf \in userFiles :
                      slot' = [slot EXCEPT ![s] = AfterUserFile([st EXCEPT !.userFile = uf])]
    /\ UNCHANGED tree

(* _createUserFile resolves: the user file is in the tree (with ADMIN_ROLE *)
(* when firstUser held at the snapshot), and authenticate continues.       *)
createUserFile(s) ==
    LET st == slot[s]
        file == [kind |-> "user", id |-> NewId,
                 username |-> st.req.username, admin |-> st.firstUser]
    IN /\ st.pc = "createUser"
       /\ tree' = tree \cup {file}
       /\ slot' = [slot EXCEPT ![s] = AfterUserFile([st EXCEPT !.userFile = file])]

(* _createTokenFile resolves and authenticate returns success with the     *)
(* user file's roles and USER_ROLE.                                        *)
createTokenFile(s) ==
    LET st == slot[s] IN
    /\ st.pc = "createToken"
    /\ tree' = tree \cup {[kind |-> "token", id |-> NewId,
                            username |-> st.req.username, token |-> st.req.token,
                            grantedBy |-> IF st.snap.tokensForUsername
                                          THEN st.req.grant ELSE NULL]}
    /\ slot' = [slot EXCEPT ![s] = [st EXCEPT !.pc = "returned", !.result = "success",
                                               !.roles = Roles(st)]]

Next ==
    \E s \in Slots :
        \/ \E req \in DeviceTokens : authenticate(s, req)
        \/ createUserFile(s)
        \/ createTokenFile(s)

Spec == Init /\ [][Next]_vars /\ \A s \in Slots :
            WF_vars(createUserFile(s)) /\ WF_vars(createTokenFile(s))

-----------------------------------------------------------------------------
(* ADMIN_ROLE is handed out only to the first non-guest user: at most one  *)
(* user file ever carries it.                                              *)
OneAdmin == Cardinality({f \in UserFiles : f.admin}) <= 1

(* authenticate keeps one user file per username: it looks the username up *)
(* and creates a user file only when none exists, and reads the roles of   *)
(* userFiles[0], which is only well defined with one candidate.            *)
UniqueUserFile ==
    \A f, g \in UserFiles : f.username = g.username => f = g

(* Trust on first use: a username's first token is accepted without a      *)
(* grant, every later one needs the grant of a token already registered.   *)
(* So at most one token file of a username was created without a grant.   *)
FirstTokenUnique ==
    \A f, g \in TokenFiles :
        /\ f.username = g.username
        /\ f.grantedBy = NULL /\ g.grantedBy = NULL
        => f = g

(* A device that authenticate accepted is accepted again with the same     *)
(* token: when a call returns success, a token file for its username and   *)
(* token is in the tree.                                                   *)
AcceptedTokenRegistered ==
    \A s \in Slots :
        slot[s].pc = "returned" /\ slot[s].result = "success" =>
            \E f \in TokenFiles :
                f.username = slot[s].req.username /\ f.token = slot[s].req.token

(* A grant extends trust from a device already registered: every token   *)
(* file created on a grant was authorised by a token file of the same      *)
(* username that existed before it.  So every token of a username traces  *)
(* back, grant by grant, to its first token.                               *)
GrantedByEarlierToken ==
    \A f \in TokenFiles :
        f.grantedBy # NULL =>
            \E g \in TokenFiles :
                g.username = f.username /\ g.token = f.grantedBy /\ g.id < f.id

=============================================================================
