---------------------------- MODULE CameraConfig ----------------------------
(***************************************************************************)
(* From the app's options and the answers of the account service to the    *)
(* list of cameras to serve (account.py and the account part of            *)
(* app_entrypoint.py): pure functions.  A text stands for what strip()     *)
(* leaves of it, Blank for one of which nothing is left; only a password   *)
(* is never stripped, and Blank is the empty one.  Fold is casefold().     *)
(* Failed is any AccountError.                                             *)
(***************************************************************************)
EXTENDS Integers, Sequences, FiniteSets

CONSTANTS
    Fold,       \* casefold, a function on the texts in use
    NoValue,    \* an option or a key that is not there
    Invalid,    \* a value of the wrong type or outside its set
    Failed      \* an AccountError

\* An error is not an empty list.
ASSUME FailedAssumption == Failed # <<>>

Blank == ""

----------------------------------------------------------------------------
(* The three requests of Eye4AccountClient.enumerate.  An answer says what *)
(* each stage returned: the user's number, a token, the list of records.   *)

Enumerated(answer) ==
    IF answer.summary # "user" \/ answer.login # "token" \/ answer.show = Invalid
    THEN Failed
    ELSE LET named == SelectSeq(answer.show, LAMBDA r : r.uid # Invalid)
         IN  [i \in DOMAIN named |->
                [uid |-> named[i].uid,
                 password |-> IF named[i].password = Invalid THEN Blank
                              ELSE named[i].password]]

----------------------------------------------------------------------------
(* normalize_camera_configurations and normalize_camera_uids.              *)

AuthMethod(item) ==
    CASE item.method = "configured_password" -> "password"
      [] item.method = NoValue ->
           IF item.password \in {NoValue, Blank} THEN "automatic" ELSE "password"
      [] OTHER -> item.method

ValidItem(item) ==
    /\ item.uid \notin {NoValue, Blank, Invalid}
    /\ item.alias # Invalid /\ item.password # Invalid
    /\ AuthMethod(item) \in {"automatic", "password"}
    /\ AuthMethod(item) = "password" => item.password # NoValue
    /\ item.battery # Invalid
    /\ item.ip \notin {Blank, Invalid}

\* A password is dropped in automatic mode, a blank alias is none, a camera
\* runs on a battery unless the configuration says otherwise.
Normalized(item) ==
    [uid      |-> item.uid,
     alias    |-> IF item.alias = Blank THEN NoValue ELSE item.alias,
     password |-> IF AuthMethod(item) = "automatic" THEN NoValue ELSE item.password,
     method   |-> AuthMethod(item),
     battery  |-> item.battery \in {NoValue, "yes"},
     ip       |-> item.ip]

Same(a, b) == a \notin {NoValue, Blank} /\ b \notin {NoValue, Blank} /\ Fold[a] = Fold[b]

\* No two entries share a UID or an alias, and no alias is another's UID.
Unambiguous(items) ==
    \A i, j \in DOMAIN items : i # j =>
        /\ ~Same(items[i].uid, items[j].uid)
        /\ ~Same(items[i].alias, items[j].alias)
        /\ Same(items[i].alias, items[j].uid) => Same(items[i].alias, items[i].uid)

NormalizeConfigurations(items) ==
    IF items # Invalid /\ (\A i \in DOMAIN items : ValidItem(items[i])) /\ Unambiguous(items)
    THEN [i \in DOMAIN items |-> Normalized(items[i])]
    ELSE Failed

\* The older options: UIDs only, compared as they are written.
NormalizeUids(uids) ==
    IF /\ uids # Invalid /\ uids # <<>>
       /\ \A i \in DOMAIN uids : uids[i] \notin {NoValue, Blank, Invalid}
       /\ \A i, j \in DOMAIN uids : i # j => uids[i] # uids[j]
    THEN uids ELSE Failed

Automatic(uid, alias) ==
    [uid |-> uid, alias |-> alias, password |-> NoValue, method |-> "automatic",
     battery |-> TRUE, ip |-> NoValue]

\* camera_id is the alias of an only camera.
Legacy(options) ==
    LET uids == NormalizeUids(options.uids)
        only == DOMAIN uids = {1} /\ options.id \notin {NoValue, Blank}
    IN  IF uids = Failed THEN Failed
        ELSE [i \in DOMAIN uids |-> Automatic(uids[i], IF only THEN options.id ELSE NoValue)]

\* NoValue and <<>> for the options that are not set.
Current(options) ==
    CASE options.cameras # NoValue -> NormalizeConfigurations(options.cameras)
      [] options.cameras = NoValue /\ options.uids # NoValue -> Legacy(options)
      [] OTHER -> <<>>

----------------------------------------------------------------------------
(* configured_camera_selections: an empty list selects every camera; an    *)
(* explicit one selects exactly the cameras it names, or fails.            *)

Select(device, item) ==
    [uid |-> device.uid, alias |-> item.alias, password |-> item.password,
     method |-> item.method, battery |-> item.battery, ip |-> item.ip]

Named(devices, uid) == {i \in DOMAIN devices : Same(devices[i].uid, uid)}

Selections(devices, options) ==
    LET current == Current(options)
    IN  CASE current = Failed -> Failed
          [] current = <<>> ->
               [i \in DOMAIN devices |->
                  Select(devices[i], Automatic(devices[i].uid, NoValue))]
          [] OTHER ->
               IF \/ \E i, j \in DOMAIN devices : i # j /\ Same(devices[i].uid, devices[j].uid)
                  \/ \E k \in DOMAIN current : Named(devices, current[k].uid) = {}
               THEN Failed
               ELSE [k \in DOMAIN current |->
                       Select(devices[CHOOSE i \in Named(devices, current[k].uid) : TRUE],
                              current[k])]
=============================================================================
