------------------------------- MODULE Catalog -------------------------------
(***************************************************************************)
(* The catalog side by side: the bank programs with the names and products  *)
(* they read, and a list of platform values that a question mirrors.        *)
(* Neither reads the other, so that a behaviour moves one of the two, with  *)
(* the other where it began.                                                *)
(***************************************************************************)
EXTENDS BankPrograms

CONSTANTS
  Values, Readers,   \* of the list
  NoValue,
  Least,             \* MIN_CHOICE_OPTIONS
  Sides              \* what is tried, of the two

VARIABLES side, live, options, cache, fill, listReq, overlapped

List == INSTANCE MirroredList WITH req <- listReq

ASSUME ListAssumption == List!Sensible
ASSUME SidesAssumption == Sides \subseteq {"programs", "list"}

list == <<live, options, cache, fill, listReq, overlapped>>
allVars == <<side, vars, list>>

CatalogInit == side \in Sides /\ Init /\ List!Init

CatalogNext ==
  /\ UNCHANGED side
  /\ \/ side = "programs" /\ Next /\ UNCHANGED list
     \/ side = "list" /\ List!Next /\ UNCHANGED vars

CatalogSpec == CatalogInit /\ [][CatalogNext]_allVars

-----------------------------------------------------------------------------

\* assertMirroredListSurvives: the live question keeps two answers as long as nothing has
\* overlapped.
AtLeastTwoAnswers == List!AtLeastTwoAnswers

\* syncMirroredOptions: the next undisturbed write puts the options right.
NextWriteHeals == List!NextWriteHeals
=============================================================================
