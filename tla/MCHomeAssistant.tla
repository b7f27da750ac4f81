-------------------------- MODULE MCHomeAssistant --------------------------
(* Two scenes: the entity of a loaded entry beside a live viewer and an    *)
(* RTSP consumer in standby, and a user with entries of several ages over  *)
(* an app that registers two cameras one after the other.                  *)
EXTENDS HomeAssistant

MCFold == [t \in {"A", "a", "B", "den", ""} |-> IF t = "A" THEN "a" ELSE t]

Record(uid) == [uid |-> uid, password |-> Blank]
MCAnswers == {[summary |-> "user", login |-> "token", show |-> <<Record("A"), Record("B")>>]}

Item(uid, alias) ==
    [uid |-> uid, alias |-> alias, password |-> NoValue, method |-> NoValue,
     battery |-> NoValue, ip |-> NoValue]

Options(cameras) ==
    [cameras |-> cameras, uids |-> NoValue, id |-> NoValue, account |-> TRUE, token |-> TRUE,
     idle |-> TRUE, arp |-> FALSE]

OneCamera  == Options(<<Item("A", NoValue)>>)
TwoCameras == Options(<<Item("A", NoValue), Item("B", "den")>>)
Renamed    == Options(<<Item("A", "den")>>)
MCConfigurations == {OneCamera, TwoCameras, Renamed}

Only(entry) == [e \in Slots |-> IF e = 1 THEN entry ELSE NoEntry]

Pictures(entry) ==
    [options |-> {OneCamera, Renamed}, guests |-> {"live", "rtsp"}, entries |-> Only(entry),
     watched |-> TRUE, user |-> FALSE]

Users(entry) ==
    [options |-> {OneCamera, TwoCameras}, guests |-> {}, entries |-> Only(entry),
     watched |-> FALSE, user |-> TRUE]

MCScenes ==
    { Pictures(Entry("A", "A", "A")), Users(NoEntry), Users(Entry("a", "a", "a")),
      Users(Entry(NoValue, "den", NoValue)) }
=============================================================================
