--------------------------- MODULE MCSecretResolver ---------------------------
(* A small instance of SecretResolver for TLC.                             *)
EXTENDS SecretResolver

MCKeysOf == "db" :> {"user", "password"} @@ "api" :> {"token"}

Literal(node) == Map("value" :> node)

Ref(name, key) ==
  Map("valueFrom" :> Map("secretKeyRef" :> Map("name" :> name @@ "key" :> key)))

References1 ==
  {Ref(Str("db"), Str("user")), Ref(Str("db"), Str("password")),
   Ref(Str("api"), Str("token")), Ref(Str("api"), Str("user")),
   Ref(Str("nowhere"), Str("token"))}

(* What looks like a reference or a literal and is none.                   *)
LookAlikes ==
  {Ref(Str("db"), Num(1)),
   Ref(Str("db"), Literal(Str("user"))),
   Map("valueFrom" :> Str("db")),
   Map("valueFrom" :> Map("secretKeyRef" :> Map("name" :> Str("db")))),
   Map("valueFrom" :> Ref(Str("db"), Str("user"))),
   Map("valueFrom" :> Ref(Str("db"), Str("user")).fields["valueFrom"]
       @@ "extra" :> Str("x")),
   Map("value" :> Str("x") @@ "extra" :> Ref(Str("db"), Str("user"))),
   Map("secretKeyRef" :> Map("name" :> Str("db") @@ "key" :> Str("user")))}

Simple == {Str("x"), Num(1), Map(<<>>), List(<<>>)} \cup References1 \cup LookAlikes

Fields ==
  Simple \cup {Literal(n) : n \in Simple}
         \cup {Literal(Literal(n)) : n \in References1}
         \cup {List(<<n, Ref(Str("db"), Str("password"))>>) : n \in Simple}
         \cup {Map("a" :> n @@ "b" :> Literal(n)) : n \in Simple}

(* A config is a map: of two fields, or of the one that makes it a pattern.*)
MCConfigs ==
  {Map("user" :> m @@ "password" :> n) : m \in Fields, n \in References1}
  \cup References1 \cup {Literal(n) : n \in Fields} \cup {Map("other" :> n) : n \in Fields}
=============================================================================
