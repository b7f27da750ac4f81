---------------------------- MODULE StreamStart ----------------------------
(***************************************************************************)
(* How a stream is started (app_entrypoint.start_stream): the camera is    *)
(* woken through the cloud (wakeup.py), unless the caller saw it awake;    *)
(* the credential selection (auth.py) then starts the helper with one      *)
(* candidate after another through open_authenticated_stream_process       *)
(* (p2p.py), which waits for the helper's login event.  One camera; the    *)
(* session's lock allows one start at a time.  Camera, wake service,       *)
(* account and disk belong to the environment.  An operator with a suffix  *)
(* is a faulty variant that no action uses.                                *)
(***************************************************************************)
EXTENDS Integers, Sequences, SequencesExt, FiniteSetsExt

CONSTANTS
    Kinds,         \* the helpers: a subset of {"amd64", "arm64"}
    Own,           \* the identifier of the camera
    Accounts,      \* the configurations and account responses considered
    Passwords,     \* the passwords the camera may have
    Ports,         \* the ports of the wake service, WAKE_PORTS
    MaxChanges,    \* bound: how often the camera's password changes
    MaxRestarts    \* bound: how often the program restarts

ASSUME StartAssumption ==
    /\ Kinds \subseteq {"amd64", "arm64"}
    /\ MaxChanges \in Nat /\ MaxRestarts \in Nat

Empty    == ""             \* a password that is present and empty
Fallback == "888888"
Absent   == "absent"       \* the account names no password
NoUid    == "no uid"
NoKey    == [source |-> "none", uid |-> NoUid]
\* The account's devices are a list; those without a uid are left out of it.
ASSUME AccountsAssumption ==
    /\ Own # NoUid
    /\ \A a \in Accounts : /\ a.devices \in Seq(Range(a.devices))
                           /\ \A d \in Range(a.devices) : d.uid # NoUid

\* What a cache file of version 1.2.x says: the account's password, no uid.
LegacyKey == [source |-> "account", uid |-> NoUid]

----------------------------------------------------------------------------
(* build_candidates and the order of authenticate_resource.                *)

Candidate(s, p, u) == [source |-> s, password |-> p, uid |-> u]
Key(c) == [source |-> c.source, uid |-> c.uid]

\* The elements of s at these indices, in their order.
At(s, indices) ==
    [k \in 1 .. Cardinality(indices) |->
        s[CHOOSE i \in indices : Cardinality(indices \cap 1 .. i) = k]]

Distinct_All(s) == s

\* The first candidate of every password.
Distinct(s) ==
    At(s, {i \in DOMAIN s : \A j \in 1 .. i - 1 : s[j].password # s[i].password})

OtherDevices(a) ==
    LET used == At(a.devices, {i \in DOMAIN a.devices :
                                  /\ a.devices[i].uid # Own
                                  /\ a.devices[i].password \notin {Empty, Absent}})
    IN  [i \in DOMAIN used |-> Candidate("account", used[i].password, used[i].uid)]

Candidates(a) ==
    IF a.strict THEN <<Candidate("manual", a.password, NoUid)>>
    ELSE LET associated == IF a.password \in {Empty, Absent} THEN <<>>
                           ELSE <<Candidate("account", a.password, Own)>>
             empty == IF a.password = Empty THEN <<Candidate("empty", Empty, NoUid)>>
                      ELSE <<>>
         IN  Distinct(associated \o OtherDevices(a) \o empty
                      \o <<Candidate("fallback", Fallback, NoUid)>>)

\* configure_bridge builds the list once, before the first start.
Configured == [a \in Accounts |-> Candidates(a)]

Matches(c, key) == c.source = key.source /\ key.uid \in {NoUid, c.uid}

Plain(cs) == [i \in DOMAIN cs |-> [cand |-> cs[i], cached |-> FALSE]]

Order_IgnoresCache(cs, key) == Plain(cs)

\* The candidate the cache names goes first, the others follow in order.
Order(cs, key) ==
    LET hits == {i \in DOMAIN cs : Matches(cs[i], key)}
    IN  IF hits = {} THEN Plain(cs)
        ELSE <<[cand |-> cs[Min(hits)], cached |-> TRUE]>>
             \o Plain(RemoveAt(cs, Min(hits)))

----------------------------------------------------------------------------
VARIABLES
    kind,       \* which helper this installation has
    account,    \* configuration and account response, read at start-up
    password,   \* the password of the camera
    cache,      \* CredentialSourceCache._values of this camera
    disk,       \* what its file says
    asking,     \* the ports wake_camera still waits for
    pc,         \* "idle", "waking", "attempt", "event", "exit", "decide", "streaming"
    order,      \* the candidates left, the one tried first
    helper,     \* "dead", "connecting", "login", "live", "leaving"
    event,      \* the login event of the helper, "none" before it
    outcome,    \* how the last selection ended: "none", "accepted", "rejected", "failed"
    proven,     \* history: the sources the camera has accepted
    refused,    \* history: the candidates it refused in the last selection
    trust,      \* history: nothing has changed since it accepted the cached one
    changes, restarts

parent == <<pc, order, outcome>>
store  == <<cache, disk>>
past   == <<kind, account, password, changes, restarts>>
world  == <<past, asking>>
vars   == <<parent, store, world, helper, event, proven, refused, trust>>

Init ==
    /\ kind \in Kinds /\ account \in Accounts /\ password \in Passwords
    /\ cache \in {NoKey, LegacyKey} /\ disk = cache
    /\ asking = {}
    /\ pc = "idle" /\ order = <<>> /\ outcome = "none"
    /\ helper = "dead" /\ event = "none"
    /\ proven = {cache} /\ refused = {} /\ trust = FALSE
    /\ changes = 0 /\ restarts = 0

tried == Head(order)

----------------------------------------------------------------------------
(* The wake request: wake_camera asks all ports at once.                   *)

\* start_stream; a camera that was seen awake (ARP) is not woken.
StartStream ==
    /\ pc = "idle"
    /\ \/ pc' = "waking" /\ asking' = Ports
       \/ pc' = "ready" /\ UNCHANGED asking
    /\ outcome' = "none" /\ refused' = {} /\ event' = "none"
    /\ UNCHANGED <<order, store, past, helper, proven, trust>>

\* The exchange with one port ends: the directory does not know the camera, its
\* node has taken the request, or something was invalid, refused or too slow.
PortEnds(p) ==
    /\ pc = "waking" /\ p \in asking
    /\ asking' = asking \ {p}
    /\ UNCHANGED <<parent, store, past, helper, event, proven, refused, trust>>

\* All exchanges are over.  When no port took the request, the WakeError goes
\* to the status and the start goes on.
WakeOver ==
    /\ pc = "waking" /\ asking = {}
    /\ pc' = "ready"
    /\ UNCHANGED <<order, outcome, store, world, helper, event, proven, refused,
                   trust>>

----------------------------------------------------------------------------
(* The parent: authenticate_resource around                                *)
(* open_authenticated_stream_process.                                      *)

\* The start of a selection: the cache is read and the candidates ordered.
Begin ==
    /\ pc = "ready"
    /\ pc' = "attempt"
    /\ order' = Order(Configured[account], cache)
    /\ UNCHANGED <<outcome, store, world, helper, event, proven, refused, trust>>

Spawn ==
    /\ pc = "attempt"
    /\ pc' = "event" /\ helper' = "connecting" /\ event' = "none"
    /\ UNCHANGED <<order, outcome, store, world, proven, refused, trust>>

\* A P2PError leaves authenticate_resource at once.
Fail == pc' = "idle" /\ outcome' = "failed" /\ order' = <<>>

SpawnFails ==
    /\ pc = "attempt"
    /\ Fail
    /\ UNCHANGED <<store, world, helper, event, proven, refused, trust>>

EventTimeout_WaitsForExit ==
    /\ pc = "event" /\ event = "none" /\ helper # "dead"
    /\ helper' = "dead"
    /\ Fail
    /\ UNCHANGED <<store, world, event, proven, refused, trust>>

EventTimeout_LeavesHelper ==
    /\ pc = "event" /\ event = "none"
    /\ Fail
    /\ UNCHANGED <<store, world, helper, event, proven, refused, trust>>

\* No event in time: the helper, if it still runs, is terminated.
EventTimeout ==
    /\ pc = "event" /\ event = "none"
    /\ helper' = "dead"
    /\ Fail
    /\ UNCHANGED <<store, world, event, proven, refused, trust>>

\* The event says the login was not accepted: wait for the helper's exit.
NotAuthenticated ==
    /\ pc = "event" /\ event \notin {"none", "accepted"}
    /\ pc' = "exit"
    /\ UNCHANGED <<order, outcome, store, world, helper, event, proven, refused, trust>>

\* Ten seconds pass first: the helper is killed, the event forgotten.
ExitTimeout ==
    /\ pc = "exit" /\ helper = "live"
    /\ helper' = "dead"
    /\ Fail
    /\ UNCHANGED <<store, world, event, proven, refused, trust>>

HelperGone ==
    /\ pc = "exit" /\ helper = "dead"
    /\ pc' = "decide"
    /\ UNCHANGED <<order, outcome, store, world, helper, event, proven, refused, trust>>

\* The cache changes in memory, and on disk if the write succeeds.
Remember(key) == cache' = key /\ disk' \in {key, disk}

Cached(c) == c.source # "manual"

Accepted_AnyAnswer == event \in {"accepted", "refused"}
Accepted == event = "accepted"

\* The login was accepted: the source is remembered, the process handed over.
Select ==
    /\ pc = "event" /\ Accepted
    /\ pc' = "streaming" /\ outcome' = "accepted"
    /\ IF Cached(tried.cand) THEN Remember(Key(tried.cand)) ELSE UNCHANGED store
    /\ order' = <<>>
    /\ trust' = (Cached(tried.cand) /\ tried.cand.password = password)
    /\ UNCHANGED <<world, helper, event, proven, refused>>

ExplicitRejection_NoAnswer == event \in {"refused", "silent"}
ExplicitRejection == event = "refused"

Reject_KeepsSource ==
    /\ pc = "decide" /\ ExplicitRejection
    /\ order' = Tail(order) /\ event' = "none"
    /\ IF order' = <<>> THEN pc' = "idle" /\ outcome' = "rejected"
                        ELSE pc' = "attempt" /\ UNCHANGED outcome
    /\ UNCHANGED <<store, world, helper, proven, refused, trust>>

\* An explicit rejection: a cached source is forgotten, the next one tried.
Reject ==
    /\ pc = "decide" /\ ExplicitRejection
    /\ order' = Tail(order) /\ event' = "none"
    /\ IF order' = <<>> THEN pc' = "idle" /\ outcome' = "rejected"
                        ELSE pc' = "attempt" /\ UNCHANGED outcome
    /\ IF tried.cached /\ cache # NoKey THEN Remember(NoKey) ELSE UNCHANGED store
    /\ UNCHANGED <<world, helper, proven, refused, trust>>

TransportFailure ==
    /\ pc = "decide" /\ ~ExplicitRejection
    /\ Fail
    /\ UNCHANGED <<store, world, helper, event, proven, refused, trust>>

----------------------------------------------------------------------------
(* The helper.  Only arm64 reports a connection that failed; only amd64    *)
(* goes on to the livestream request after a login that was not accepted.  *)

AfterLogin(e) == IF e = "accepted" \/ kind = "amd64" THEN "live" ELSE "leaving"

Report(e, stage) == event' = e /\ helper' = stage

Connects ==
    /\ helper = "connecting"
    /\ helper' = "login"
    /\ UNCHANGED <<parent, store, world, event, proven, refused, trust>>

ConnectFails ==
    /\ helper = "connecting"
    /\ IF kind = "arm64" THEN Report("offline", "leaving")
                         ELSE Report("none", "dead")
    /\ UNCHANGED <<parent, store, world, proven, refused, trust>>

LoginAccepted ==
    /\ helper = "login" /\ tried.cand.password = password
    /\ Report("accepted", AfterLogin("accepted"))
    /\ proven' = proven \cup {Key(tried.cand)}
    /\ UNCHANGED <<parent, store, world, refused, trust>>

LoginRefused ==
    /\ helper = "login" /\ tried.cand.password # password
    /\ Report("refused", AfterLogin("refused"))
    /\ refused' = refused \cup {tried.cand}
    /\ UNCHANGED <<parent, store, world, proven, trust>>

LoginUnanswered ==
    /\ helper = "login"
    /\ Report("silent", AfterLogin("silent"))
    /\ UNCHANGED <<parent, store, world, proven, refused, trust>>

\* The helper ends by itself, at any stage, without a word or after its event.
HelperEnds ==
    /\ helper # "dead"
    /\ helper' = "dead"
    /\ UNCHANGED <<parent, store, world, event, proven, refused, trust>>

----------------------------------------------------------------------------
(* The environment.                                                        *)

\* The session ends the stream: its helper has exited or is terminated.
StreamOver ==
    /\ pc = "streaming"
    /\ pc' = "idle" /\ helper' = "dead"
    /\ UNCHANGED <<order, outcome, store, world, event, proven, refused, trust>>

ChangePassword ==
    /\ changes < MaxChanges
    /\ changes' = changes + 1
    /\ password' \in Passwords \ {password}
    /\ trust' = FALSE
    /\ UNCHANGED <<parent, store, kind, account, restarts, asking, helper, event, proven, refused>>

\* The cache is one file: a save for another camera writes this entry too.
OtherCameraSaves ==
    /\ disk # cache
    /\ disk' = cache
    /\ UNCHANGED <<cache, parent, world, helper, event, proven, refused, trust>>

\* The program stops at any point and reads file and account anew.
Restart ==
    /\ restarts < MaxRestarts
    /\ restarts' = restarts + 1
    /\ account' \in Accounts
    /\ cache' = disk /\ UNCHANGED disk
    /\ pc' = "idle" /\ outcome' = "none" /\ order' = <<>>
    /\ helper' = "dead" /\ event' = "none" /\ refused' = {}
    /\ trust' = (trust /\ disk = cache /\ account' = account)
    /\ asking' = {}
    /\ UNCHANGED <<kind, password, changes, proven>>

Next ==
    \/ StartStream \/ (\E p \in Ports : PortEnds(p)) \/ WakeOver
    \/ Begin \/ Spawn \/ SpawnFails
    \/ EventTimeout \/ NotAuthenticated \/ ExitTimeout \/ HelperGone
    \/ Select \/ Reject \/ TransportFailure
    \/ Connects \/ ConnectFails
    \/ LoginAccepted \/ LoginRefused \/ LoginUnanswered \/ HelperEnds
    \/ StreamOver \/ ChangePassword \/ OtherCameraSaves \/ Restart

\* The parent's thread runs; its waits, for the wake service too, are timed; a
\* helper that is leaving leaves.  Nothing is assumed of the camera's answers.
Fairness ==
    /\ WF_vars(\E p \in Ports : PortEnds(p))
    /\ WF_vars(WakeOver \/ Begin)
    /\ WF_vars(Spawn \/ NotAuthenticated \/ HelperGone)
    /\ WF_vars(Select \/ Reject \/ TransportFailure)
    /\ WF_vars(EventTimeout)
    /\ WF_vars(ExitTimeout)
    /\ WF_vars(HelperEnds /\ helper = "leaving")

Spec == Init /\ [][Next]_vars /\ Fairness

----------------------------------------------------------------------------
(* Properties.                                                             *)

Selecting == pc \in {"attempt", "event", "exit", "decide"}

\* Every variable has its type; candidates wait only for a selection under way,
\* and ports only for a wake request.
TypeOK ==
    /\ kind \in Kinds /\ account \in Accounts /\ password \in Passwords
    /\ asking \subseteq Ports /\ (asking # {} => pc = "waking")
    /\ pc \in {"idle", "waking", "ready", "attempt", "event", "exit", "decide", "streaming"}
    /\ order # <<>> => Selecting
    /\ helper \in {"dead", "connecting", "login", "live", "leaving"}
    /\ event \in {"none", "offline", "silent", "refused", "accepted"}
    /\ outcome \in {"none", "accepted", "rejected", "failed"}
    /\ trust \in BOOLEAN
    /\ changes \in 0..MaxChanges /\ restarts \in 0..MaxRestarts

\* A selection is reported as rejected only when the camera itself has refused
\* every candidate: a helper that dies, hangs or hears nothing refutes none
\* (auth.py, AuthenticationRejected).
RejectedMeansAllRefused ==
    outcome = "rejected" => refused = Range(Configured[account])

\* No secret is tried twice in one selection, whatever account, other devices
\* and cache name: the candidates left differ from each other and from those
\* the camera has refused (auth.py, build_candidates and the order).
NoSecretTwice ==
    /\ Selecting => Cardinality({order[i].cand.password : i \in DOMAIN order}) = Len(order)
    /\ pc = "attempt" =>
           \A c \in refused, i \in DOMAIN order : order[i].cand.password # c.password

\* When a selection has ended without a stream, its helper has ended too, and
\* so it has before the next candidate is tried (p2p.py, every exit).
NoHelperLeftBehind == pc \in {"idle", "waking", "ready", "attempt"} => helper = "dead"

\* Memory and file name only sources the camera has accepted at some time (or
\* what an old file said), across failed writes, saves for other cameras and
\* restarts (auth.py, CredentialSourceCache).
CacheNamesProvenSource == cache \in proven \cup {NoKey} /\ disk \in proven \cup {NoKey}

\* While the camera's password and the account stay what they were when a
\* source was accepted and kept, no start bothers the camera with a wrong one
\* (auth.py, the cached candidate first).
KnownSourceGoesFirst == trust /\ Selecting => refused = {}

\* A source the camera has refused is not in the cache when the next candidate
\* is tried nor after the selection, except when the amd64 helper outlives the
\* wait for its exit (auth.py, invalidate).
RefusedSourceIsForgotten ==
    pc \in {"idle", "attempt", "streaming"} /\ (outcome # "failed" \/ kind = "arm64")
        => \A c \in refused : ~Matches(c, cache)

\* A start ends, whatever wake service, helper and camera do, in a stream or in
\* an error, and only after a selection: a camera that could not be woken is
\* tried all the same (app_entrypoint.py, the swallowed WakeError; p2p.py, the
\* timed waits; auth.py, the bounded list).
StartEnds ==
    /\ (pc = "waking") ~> (pc = "attempt" \/ restarts > 0)
    /\ (pc = "attempt") ~> (pc \in {"idle", "streaming"})

\* A refusal the helper has reported never counts as a failure of the transport:
\* the next candidate is tried, or the selection is rejected (CHANGELOG.md:
\* the camera explicitly rejects it "before bounded fallback continues").
RefusalIsNotAFailure == outcome = "failed" => event # "refused"

=============================================================================
