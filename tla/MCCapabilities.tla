--------------------------- MODULE MCCapabilities ---------------------------
(***************************************************************************)
(* Instances of Capabilities for TLC.  The pack has a read capability, an  *)
(* action and a readiness check, a tool for each; Packs are ways in which  *)
(* the pack or its server may be wrong.                                    *)
(***************************************************************************)
EXTENDS Capabilities, TLC

CONSTANTS p1, p2, m1, m2, m3

OneProcess == {p1}
TwoProcesses == {p1, p2}
AMessage == {m1}
AMessageAndAnswer == {m1, m2}
AMessageAndAnswers == {m1, m2, m3}
NoCheckpoints == {}
AllCapabilities == {Docs, Order, Web}

Declared ==
  "read" :> "read" @@ "check" :> "read" @@ "prepare" :> "prepare" @@ "submit" :> "write"
Mapped ==
  <<Docs, "fetch">> :> "read" @@ <<"pack", "check">> :> "check" @@
  <<Order, "prepare">> :> "prepare" @@ <<Order, "confirm">> :> "submit"

Hint(readOnly, destructive) == [readOnly |-> readOnly, destructive |-> destructive]
Honest ==
  "read" :> Hint("yes", "no") @@ "check" :> Hint("yes", "absent") @@
  "prepare" :> Hint("no", "no") @@ "submit" :> Hint("no", "yes")

GoodPack == [declared |-> Declared, uses |-> Mapped]
UsedTwice == [GoodPack EXCEPT !.uses[<<Docs, "fetch">>] = "submit"]
Understated == [GoodPack EXCEPT !.uses[<<Docs, "fetch">>] = "submit",
                                !.uses[<<Order, "confirm">>] = "read"]
LyingPack == [Understated EXCEPT !.declared["submit"] = "read", !.declared["read"] = "write"]

GoodInstallation == [pack |-> GoodPack, server |-> Honest]
OtherPacks ==
  {GoodInstallation,
   [pack |-> UsedTwice, server |-> Honest],
   [pack |-> Understated, server |-> Honest],
   [pack |-> LyingPack, server |-> Honest],
   [pack |-> GoodPack, server |-> [Honest EXCEPT !["check"] = Hint("no", "no")]],
   [pack |-> GoodPack, server |-> [Honest EXCEPT !["prepare"] = Hint("no", "absent")]]}

Off == [ok |-> TRUE, on |-> FALSE, caps |-> Inherit]
Wide == [ok |-> TRUE, on |-> TRUE, caps |-> Inherit]
Narrow == [ok |-> TRUE, on |-> TRUE, caps |-> {Docs}]
Beyond == [ok |-> TRUE, on |-> TRUE, caps |-> {Docs, "unknown"}]
SomeConsoles == {Wide, Narrow, Beyond, Off}

AnswerSymmetry == Permutations(Messages \ Asks)

=============================================================================
