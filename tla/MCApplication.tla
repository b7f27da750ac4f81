--------------------------- MODULE MCApplication ---------------------------
(* An account with up to three cameras, two of whose UIDs differ only in   *)
(* case, and options of every kind that normalization tells apart.         *)
EXTENDS Application

MCFold == [t \in {"A", "a", "B", "den"} |-> IF t = "A" THEN "a" ELSE t]

Record(uid) == [uid |-> uid, password |-> Blank]
Answer(show) == [summary |-> "user", login |-> "token", show |-> show]

MCAnswers ==
    { Answer(<<Record("A"), Record("B")>>),
      Answer(<<Record("B"), Record("A"), Record("a")>>),
      Answer(<<Record("A"), Record(Invalid), Record("A")>>),
      [Answer(<<>>) EXCEPT !.login = "refused"] }

Item(uid, alias, battery, ip) ==
    [uid |-> uid, alias |-> alias, password |-> NoValue, method |-> NoValue,
     battery |-> battery, ip |-> ip]

Options(cameras, uids, id) ==
    [cameras |-> cameras, uids |-> uids, id |-> id, account |-> TRUE, token |-> TRUE,
     idle |-> TRUE, arp |-> TRUE]

MCConfigurations ==
    { Options(NoValue, NoValue, NoValue),
      Options(<<Item("a", "den", "yes", "ip1"), Item("B", NoValue, "yes", "ip2")>>,
              NoValue, NoValue),
      Options(<<Item("A", Blank, "yes", "ip1"), Item("B", "den", NoValue, "ip1")>>,
              NoValue, NoValue),
      Options(<<Item("A", NoValue, "yes", "ip1"), Item("B", NoValue, "no", "ip1")>>,
              NoValue, NoValue),
      Options(<<Item("A", "B", "yes", NoValue), Item("B", NoValue, "yes", NoValue)>>,
              NoValue, NoValue),
      Options(NoValue, <<"A", "a">>, "den"),
      Options(NoValue, <<"B">>, "den"),
      [Options(NoValue, NoValue, NoValue) EXCEPT !.account = FALSE],
      [Options(NoValue, NoValue, NoValue) EXCEPT !.token = FALSE],
      [Options(NoValue, <<"A">>, NoValue) EXCEPT !.idle = FALSE, !.arp = FALSE] }
=============================================================================
