------------------------------ MODULE MCStartup ------------------------------
(* Every pair of files of MCSpecFiles with one complete configuration, and *)
(* a file that parses and one that does not with every combination of a    *)
(* few variables and up to two arguments.                                  *)
EXTENDS Startup, MCSpecFiles

To(name) == Raw(name, FALSE)

Mail == [v \in {"mail-endpoint", "mail-username", "mail-password", "mail-sender"} |-> v]
Auth(user, password) ==
  ("http-basic-auth-username" :> user) @@ ("http-basic-auth-password" :> password)

Variables ==
  {<<>>, Mail, Mail @@ ("mail-receiver" :> <<Raw("ann", TRUE), To(NoName), To("bob")>>),
   Mail @@ ("mail-receiver" :> <<To(NoName)>>) @@ ("mail-port" :> 0),
   Auth("root", "secret"), Auth("root", Empty), Auth(Empty, "secret"),
   "startup-jitter" :> -1, "startup-jitter" :> Unparsable, "cycle-interval" :> 0,
   "mail-no-tls" :> Unparsable, "mail-no-tls" :> TRUE,
   ("log-level" :> Raw("info", TRUE)) @@ (LogLevelAlt :> To("verbose")),
   ("log-level" :> Empty) @@ (LogLevelAlt :> To("debug")), "log-level" :> To("verbose")}

Arguments ==
  {Operand, <<"help", Empty>>,
   <<"mail-receiver", Raw("eve", TRUE)>>, <<"mail-receiver", To("bob")>>,
   <<"mail-receiver", Raw(NoName, TRUE)>>, <<"mail-endpoint", Empty>>,
   <<"startup-jitter", 3>>, <<"startup-jitter", -1>>, <<"startup-jitter", Unparsable>>,
   <<"http-port", 0>>, <<"http-address", Empty>>, <<"log-level", To("WARN")>>,
   <<"http-basic-auth-username", "root">>, <<"http-basic-auth-password", Empty>>,
   <<"mail-no-tls", TRUE>>}

Complete == Mail @@ ("mail-receiver" :> <<To("ann"), To("bob")>>)

ConfigDirs ==
  {XDGConfigHome :> "config", (XDGConfigHome :> Empty) @@ (Home :> "home"),
   (XDGConfigHome :> Unparsable) @@ (Home :> "home"), XDGConfigHome :> Empty}

MCLaunches(dir) ==
  IF dir \in {<<<<Web>>>>, <<<<Malformed>>>>}
  THEN {<<e @@ (Home :> "home"), a>> : e \in Variables, a \in UpTo(2, Arguments)}
         \cup {<<e, <<>>>> : e \in ConfigDirs}
  ELSE {<<Complete @@ (Home :> "home"), <<>>>>, <<Complete, <<>>>>}
=============================================================================
