---------------------------- MODULE UpdateNotice ----------------------------
(***************************************************************************)
(* The update notice: the updater's goroutine checks the latest release    *)
(* every six hours and tells the backend of a new one; OnConnect tells a   *)
(* new connection what is known already.  Each publishes before it looks:  *)
(* checkOnce records the release and then reads the send function,         *)
(* OnConnect installs the send function and then reads the release.        *)
(***************************************************************************)
EXTENDS Integers, Sequences

CONSTANTS
    Tags,        \* the tags of releases
    Rank,        \* what parseSemver makes of each: the three numbers, as one
    Current,     \* the rank of the agent's own version
    MaxLogins    \* bound: connections

ASSUME UpdateAssumption ==
    /\ Rank \in [Tags -> Nat] /\ Current \in Nat /\ MaxLogins \in Nat /\ "" \notin Tags

VARIABLES
    latest,        \* the tag of the latest release at GitHub
    latestKnown,
    toCheck,       \* the steps checkOnce has to go
    fetched,       \* and the tag it fetched
    logins,        \* the number of the last connection
    up,            \* it is there, as far as its own OnConnect noticed
    toLogin,       \* the steps OnConnect has to go
    sendFn,        \* the connection whose send function is installed, or 0
    notified       \* what each connection was told

checkVars == <<latestKnown, toCheck, fetched>>
loginVars == <<logins, up, toLogin, sendFn>>
updateVars == <<latest, checkVars, loginVars, notified>>

NotifyFirst == <<"notify", "record">>

\* once a tag is fetched and newer: record it, and tell if it is not the one recorded
CheckOrder == <<"record", "notify">>

\* OnConnect
LoginOrder == <<"install", "info", "tell">>

UpdateInit ==
    /\ latest \in Tags /\ latestKnown = "" /\ toCheck = <<>> /\ fetched = ""
    /\ logins = 0 /\ up = FALSE /\ toLogin = <<>> /\ sendFn = 0
    /\ notified = [n \in 1 .. MaxLogins |-> {}]

\* a release is made, or withdrawn
Release(t) ==
    /\ latest' = t
    /\ UNCHANGED <<checkVars, loginVars, notified>>

\* isNewer: tags of the same three numbers are not newer than one another
Newer(t) == Rank[t] > Current

\* the timer fires and the release is fetched
Fetch ==
    /\ toCheck = <<>> /\ Newer(latest)
    /\ toCheck' = CheckOrder /\ fetched' = latest
    /\ UNCHANGED <<latest, latestKnown, loginVars, notified>>

CheckDoes(what) == toCheck # <<>> /\ Head(toCheck) = what

Record ==
    /\ CheckDoes("record") /\ latestKnown' = fetched
    /\ toCheck' = IF fetched # latestKnown THEN Tail(toCheck) ELSE <<>>
    /\ UNCHANGED <<latest, fetched, loginVars, notified>>

\* sendUpdateAvailable
Notify ==
    /\ CheckDoes("notify") /\ toCheck' = Tail(toCheck)
    /\ notified' = IF sendFn = 0 THEN notified
                   ELSE [notified EXCEPT ![sendFn] = @ \cup {fetched}]
    /\ UNCHANGED <<latest, latestKnown, fetched, loginVars>>

-----------------------------------------------------------------------------
LoginBegins ==
    /\ ~up /\ sendFn = 0 /\ logins < MaxLogins
    /\ logins' = logins + 1 /\ up' = TRUE /\ toLogin' = LoginOrder
    /\ UNCHANGED <<latest, checkVars, sendFn, notified>>

LoginDoes(what) == toLogin # <<>> /\ Head(toLogin) = what

Install ==
    /\ LoginDoes("install") /\ toLogin' = Tail(toLogin)
    /\ sendFn' = logins
    /\ UNCHANGED <<latest, checkVars, logins, up, notified>>

SendInfo ==
    /\ LoginDoes("info") /\ toLogin' = Tail(toLogin)
    /\ UNCHANGED <<latest, checkVars, logins, up, sendFn, notified>>

\* agent_info cannot be sent: the connection is lost, though its send function stays for a
\* while, and OnConnect returns
SendInfoFails ==
    /\ LoginDoes("info") /\ toLogin' = <<>> /\ up' = FALSE
    /\ UNCHANGED <<latest, checkVars, logins, sendFn, notified>>

TellKnown ==
    /\ LoginDoes("tell") /\ toLogin' = Tail(toLogin)
    /\ notified' = IF latestKnown = "" THEN notified
                   ELSE [notified EXCEPT ![logins] = @ \cup {latestKnown}]
    /\ UNCHANGED <<latest, checkVars, logins, up, sendFn>>

\* OnDisconnect comes after OnConnect has returned
LoginEnds ==
    /\ sendFn # 0 /\ toLogin = <<>>
    /\ up' = FALSE /\ sendFn' = 0
    /\ UNCHANGED <<latest, checkVars, logins, toLogin, notified>>

UpdateNext ==
    \/ \E t \in Tags : Release(t)
    \/ Fetch \/ Record \/ Notify
    \/ LoginBegins \/ Install \/ SendInfo \/ SendInfoFails \/ TellKnown \/ LoginEnds

UpdateSpec == UpdateInit /\ [][UpdateNext]_updateVars

-----------------------------------------------------------------------------
(* Properties                                                              *)

UpdateTypeOK ==
    /\ latest \in Tags /\ latestKnown \in Tags \cup {""} /\ fetched \in Tags \cup {""}
    /\ toCheck \in {CheckOrder, <<"notify">>, <<>>}
    /\ logins \in 0 .. MaxLogins /\ up \in BOOLEAN /\ sendFn \in 0 .. MaxLogins
    /\ toLogin \in {LoginOrder, <<"info", "tell">>, <<"tell">>, <<>>}
    /\ notified \in [1 .. MaxLogins -> SUBSET Tags]

\* No update is kept from the backend: when neither a check nor OnConnect is under way, the
\* connection there is has been told of the release the updater knows, however their steps
\* were interleaved (agent.go:109).  Not that it was told of it last.
NoticeGiven ==
    up /\ toLogin = <<>> /\ toCheck = <<>> /\ latestKnown # "" =>
        latestKnown \in notified[logins]

=============================================================================
