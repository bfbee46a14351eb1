---------------------------- MODULE MCClassScan ----------------------------
(* A classpath of a few classes for ClassScan.  Class names are letter     *)
(* sequences so that one can be a prefix of another: <<"a">> of <<"a","b">>. *)
EXTENDS ClassScan

O  == <<"o">>        \* a VM type, loaded with the Machine
A  == <<"a">>
AB == <<"a", "b">>
B  == <<"b">>
D  == <<"d">>        \* a subclass of B
E  == <<"e">>        \* an exception type with statics
C  == <<"c">>        \* declares an exception type that is on no classpath
Z  == <<"z">>

Meth(n, sp, code, native, throws) ==
  [name |-> n, spec |-> sp, code |-> code, native |-> native, throws |-> throws]

Cls(super, statics, fields, methods) ==
  [super |-> super, statics |-> statics, fields |-> fields, methods |-> methods]

MCClasses ==
  [x \in {O, A, AB, B, D, E, C} |->
     CASE x = O  -> Cls(NoArg, FALSE, TRUE, <<>>)
       [] x = A  -> Cls(O, TRUE, TRUE,
                        << Meth("m", "s1", TRUE, FALSE, {}),
                           Meth("n", "s1", FALSE, TRUE, {E}),
                           Meth("m", "s2", FALSE, FALSE, {}) >>)
       [] x = AB -> Cls(O, FALSE, FALSE, << Meth("m", "s1", TRUE, FALSE, {}) >>)
       [] x = B  -> Cls(O, TRUE, TRUE, << Meth("m", "s2", TRUE, FALSE, {}) >>)
       [] x = D  -> Cls(B, FALSE, TRUE, << Meth("m", "s1", TRUE, FALSE, {}) >>)
       [] x = E  -> Cls(O, TRUE, TRUE, <<>>)
       [] x = C  -> Cls(O, FALSE, TRUE, << Meth("q", "s1", TRUE, FALSE, {Z}) >>)]

Ent(stem, isClass) == [stem |-> stem, isClass |-> isClass]

Library ==
  << Ent(A, TRUE), Ent(<<"x">>, FALSE), Ent(AB, TRUE), Ent(D, TRUE),
     Ent(B, TRUE), Ent(E, TRUE), Ent(O, TRUE) >>

(* "cp1" holds the library; "cp2" also holds C.  <<"x">> is a resource.   *)
(* "cp3" lists the library the other way round (superclasses and the      *)
(* exception type before the classes that load them) with A in two jars.  *)
MCClasspaths ==
  [cp \in {"cp1", "cp2", "cp3"} |->
     CASE cp = "cp1" -> Library
       [] cp = "cp2" -> Library \o << Ent(C, TRUE) >>
       [] cp = "cp3" -> Reverse(Library) \o << Ent(A, TRUE) >>]

MCVMTypes == {O}

(* Misuse on both sides of 3..6, the whole classpath with and without C,   *)
(* a class filter, a name filter and a name-and-spec filter.               *)
MCArgVectors ==
  { <<"cp1">>,
    <<"cp1", "out", B, "m", "s1", "s1">>,
    <<"cp1", "out">>,
    <<"cp2", "out">>,
    <<"cp1", "out", B>>,
    <<"cp2", "out", A, "m">>,
    <<"cp1", "out", A, "m", "s2">>,
    <<"cp2", "out", B, "m", "s2">>,
    <<"cp3", "out">>,
    <<"cp3", "out", A, "m">> }

(* A class filter of which another class name is a prefix.                *)
MCPrefixArgs == { <<"cp1", "out", AB>> }

(* A class filter naming a class whose superclass has static fields.       *)
MCSubclassArgs == { <<"cp1", "out", D>> }
=============================================================================
