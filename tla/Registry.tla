------------------------------- MODULE Registry --------------------------------
(***************************************************************************)
(* registry.go: the temporary errors of a Retrier, a slice under a         *)
(* read-write lock, so that every method is one atomic step.               *)
(*                                                                         *)
(* An error is a member of Errs; <<e, f>> \in Is when errors.Is(e, f),     *)
(* that is, when e is f or wraps it.                                       *)
(***************************************************************************)
EXTENDS Naturals, Sequences, SequencesExt

CONSTANTS Errs,         \* errors
          Is,           \* errors.Is
          Defaults      \* what LoadDefaults registers

ASSUME IsAssumption ==
    /\ Is \subseteq Errs \X Errs
    /\ \A e \in Errs : <<e, e>> \in Is
    /\ \A e, f, g \in Errs : <<e, f>> \in Is /\ <<f, g>> \in Is => <<e, g>> \in Is
ASSUME DefaultsAssumption == Defaults \in Seq(Errs)

VARIABLE storage        \* r.storage

NewRegistry == storage = <<>>

\* A copy, and its length.
ListTemporaryErrors == storage
RegistryLen == Len(storage)

\* A list of errors tells whether err is temporary, for IsTemporaryError.
Matches(err, list) == \E i \in DOMAIN list : <<err, list[i]>> \in Is

\* An error that is registered twice is in the list twice.
RegisterTemporaryErrors(errs) == storage' = storage \o errs

LoadDefaults == RegisterTemporaryErrors(Defaults)

\* Mutant: the test for a match is the wrong way round.
WithoutFlipped(list, target) == RemoveFirstMatch(list, LAMBDA e : <<target, e>> \in Is)

\* The first entry that is or wraps target goes, a second one stays.
Without(list, target) == RemoveFirstMatch(list, LAMBDA e : <<e, target>> \in Is)

UnRegisterTemporaryErrors(errs) == storage' = FoldLeft(Without, storage, errs)

Clean == storage' = <<>>
================================================================================
