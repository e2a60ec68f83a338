----------------------------- MODULE References -----------------------------
(***************************************************************************)
(* From the path of a secret block to its references and the backends they  *)
(* go to (internal/provider/reference.go, provider.go).                     *)
(*                                                                         *)
(*   text   the words of a reference and the separators ":" and "://"       *)
(*   line   [comment : BOOLEAN, text, parts]: the text it is as a whole and *)
(*          the parts between its commas                                   *)
(*   part   [kind, name, text]: "named"    name = <reference>               *)
(*                              "dangling" name =                          *)
(*                              "bare"     anything else                   *)
(*                              "blank"    nothing                         *)
(***************************************************************************)
EXTENDS SequencesExt

Unnamed == ""

Meaningful(line) ==
  ~line.comment /\ (Len(line.parts) > 1 \/ line.parts[1].kind # "blank")

(* namedEntry matches the line: what follows "name =" may be a comma. *)
Names(line) ==
  \/ line.parts[1].kind = "named"
  \/ line.parts[1].kind = "dangling" /\ Len(line.parts) > 1

WellNamed(parts) ==
  /\ \A i \in DOMAIN parts : parts[i].kind = "named"
  /\ \A i, j \in DOMAIN parts : i # j => parts[i].name # parts[j].name

(* SplitEntries: the sequence of entries, {} when it returns an error.  The
   first meaningful line says whether the path is one reference or a list. *)
SplitEntries(path) ==
  LET lines == SelectSeq(path, Meaningful)
      parts == SelectSeq(FlattenSeq([i \in DOMAIN lines |-> lines[i].parts]),
                         LAMBDA p : p.kind # "blank")
  IN  IF lines = <<>> THEN {}
      ELSE IF Names(lines[1])
      THEN IF WellNamed(parts)
           THEN {[i \in DOMAIN parts |-> [name |-> parts[i].name, text |-> parts[i].text]]}
           ELSE {}
      ELSE IF Len(lines) = 1 THEN {<<[name |-> Unnamed, text |-> lines[1].text]>>}
      ELSE {}

----------------------------------------------------------------------------
(* What stands before the first of these separators; nothing if none does. *)
Before(text, separators) ==
  LET at == {i \in DOMAIN text : text[i] \in separators}
  IN  IF at = {} THEN <<>> ELSE SubSeq(text, 1, Min(at) - 1)

Scheme(text) ==
  IF Before(text, {"://"}) # <<>> THEN Before(text, {"://"}) ELSE Before(text, {":", "://"})

(* Registry.Route: the schemes whose provider is returned; {} for an error. *)
Route(registered, text) ==
  IF Scheme(text) # <<>> THEN registered \cap {Scheme(text)}
  ELSE IF Cardinality(registered) = 1 THEN registered
  ELSE {}
=============================================================================
