----------------------------- MODULE Hypercubes -----------------------------
(***************************************************************************)
(* Hypercubes: Session::OnConcatStokesFiles opens files of one             *)
(* polarization each and StokesFilesConnector concatenates them along a    *)
(* polarization axis, in the order of the polarizations.                   *)
(*                                                                         *)
(* A polarization is its number in the protocol: I, Q, U, V are 1 to 4, RR *)
(* to YX 5 to 12, computed ones from 13, none 0.  Names and beams of the   *)
(* images are left out.                                                    *)
(***************************************************************************)
EXTENDS Integers, Sequences, FiniteSets

CONSTANT ConcatRequests  \* sequences of [type, file]; a file is
                         \* [opens, kind, shape, axis, planes]
StokesTypes == 17        \* StokesTypes.size()
ASSUME ConcatRequestsAssumption ==
    \A req \in ConcatRequests :
        /\ req # <<>> /\ req \in Seq({req[i] : i \in DOMAIN req})
        /\ \A i \in DOMAIN req : req[i].type \in 0..StokesTypes

VARIABLES concat_request,  \* the message, or NoConcat
          stokes_loaders,  \* _loaders: the polarizations whose file is open
          hypercube,       \* concatenated_image: its planes, [label, file]
          concat_error,    \* why there is none, or NoError
          concat_ack       \* the response

hypercubeVars == <<concat_request, stokes_loaders, hypercube, concat_error, concat_ack>>

NoConcat == <<>>
NoError == ""
Labels == 1..12            \* what a file can be labelled with
Unset == 0                 \* a label that was never assigned
NoConcatAck == [sent |-> FALSE, success |-> FALSE, opened |-> FALSE]

TypesOf(req) == {req[i].type : i \in DOMAIN req}
FileOfType(req, type) == req[CHOOSE i \in DOMAIN req : req[i].type = type].file

HypercubesTypeOK ==
    /\ \A i \in DOMAIN concat_request : concat_request[i].type \in 0..StokesTypes
    /\ stokes_loaders \subseteq TypesOf(concat_request)
    /\ \A i \in DOMAIN hypercube : hypercube[i].label \in Labels \cup {Unset}
    /\ concat_error \in {NoError, "open", "kinds", "axis", "shapes", "coordinates", "library"}
    /\ concat_ack.success \in BOOLEAN /\ concat_ack.opened \in BOOLEAN

HypercubesInit ==
    /\ concat_request = NoConcat /\ stokes_loaders = {} /\ hypercube = <<>>
    /\ concat_error = NoError /\ concat_ack = NoConcatAck

-----------------------------------------------------------------------------
\* FileInfo::ConvertFitsStokesValue: I to V keep their number, RR to YX are -1
\* to -8.
HasFitsValue(type) == type \in 1..12
FitsValue(type) == IF type <= 4 THEN type ELSE 4 - type

\* Whether the numbers are in equal steps, in the order given; the types that
\* have none are passed over.
Following(types) ==
    LET numbered == {i \in DOMAIN types : HasFitsValue(types[i])}
    IN {p \in numbered \X numbered : p[1] < p[2] /\ \A k \in numbered : k <= p[1] \/ p[2] <= k}
StepOver(types, p) == FitsValue(types[p[2]]) - FitsValue(types[p[1]])
EqualSteps(types) == \A p, q \in Following(types) : StepOver(types, p) = StepOver(types, q)
Types(req) == [i \in DOMAIN req |-> req[i].type]

\* StokesFilesConnector::OpenStokesFiles: the file at which it stops, its error
\* and the loaders that are open then.
DuplicateAt(req, i) == \E j \in 1..i - 1 : req[j].type = req[i].type
OpenStops(req, i) == DuplicateAt(req, i) \/ ~req[i].file.opens
                        \/ req[i].file.kind # req[1].file.kind
FirstStop(req) ==
    LET stops == {i \in DOMAIN req : OpenStops(req, i)}
    IN IF stops = {} THEN 0 ELSE CHOOSE i \in stops : \A j \in stops : i <= j

OpenError(req) ==
    LET i == FirstStop(req)
    IN IF Len(req) < 2 THEN "open"
       ELSE IF i # 0 THEN IF DuplicateAt(req, i) \/ ~req[i].file.opens THEN "open" ELSE "kinds"
       ELSE IF Len(req) > 2 /\ ~EqualSteps(Types(req)) THEN "axis" ELSE NoError

\* The loader of a file that does not open is in the map all the same.
Opened(req) ==
    LET i == FirstStop(req)
    IN IF Len(req) < 2 THEN {} ELSE {req[j].type : j \in 1..(IF i # 0 THEN i ELSE Len(req))}

\* StokesFilesConnector::StokesFilesValid.
StokesFilesValid(req) ==
    \A i \in DOMAIN req : req[i].file.shape = req[1].file.shape /\ req[i].file.axis = req[1].file.axis

\* DoConcat concatenates the files in the order of their polarizations; that of
\* the first file counts where it looks for an axis.  Without an axis every file
\* needs a label; with one, a computed polarization has a label that is not
\* initialized, and none is left out.
InOrder(req) ==
    LET added[i \in 0..StokesTypes] ==
            IF i = 0 THEN <<>>
            ELSE IF i \in TypesOf(req) THEN Append(added[i - 1], i) ELSE added[i - 1]
    IN added[StokesTypes]
LabelOf(type) == IF type \in Labels THEN type ELSE Unset

ConcatError(req) ==
    IF OpenError(req) # NoError THEN OpenError(req)
    ELSE IF ~StokesFilesValid(req) THEN "shapes"
    ELSE IF \/ ~req[1].file.axis /\ ~TypesOf(req) \subseteq Labels
            \/ req[1].file.axis /\ \E i \in DOMAIN req : req[i].type # 0 /\ req[i].file.planes # 1
         THEN "coordinates" ELSE NoError

Planes(req) ==
    LET types == InOrder(req)
    IN [i \in DOMAIN types |-> [label |-> LabelOf(types[i]), file |-> FileOfType(req, types[i])]]

\* What the library makes of the images is its own; no image can be made of none.
DoConcat(req) ==
    /\ concat_request' = req
    /\ stokes_loaders' = Opened(req)
    /\ \E library \in BOOLEAN :
          /\ concat_error' = IF ConcatError(req) = NoError /\ library THEN "library" ELSE ConcatError(req)
          /\ hypercube' = IF concat_error' = NoError THEN Planes(req) ELSE <<>>
    /\ UNCHANGED concat_ack

\* OnConcatStokesFiles: the image is opened like a file; the response says that
\* the files were concatenated even if that fails.
OpenHypercube ==
    /\ concat_request # NoConcat /\ ~concat_ack.sent
    /\ \E opened \in IF concat_error = NoError THEN BOOLEAN ELSE {FALSE} :
          concat_ack' = [sent |-> TRUE, success |-> concat_error = NoError, opened |-> opened]
    /\ stokes_loaders' = {}
    /\ UNCHANGED <<concat_request, hypercube, concat_error>>

\* The next request; the Frame keeps the image.
HypercubeKept ==
    /\ concat_ack.sent
    /\ concat_request' = NoConcat /\ hypercube' = <<>>
    /\ concat_error' = NoError /\ concat_ack' = NoConcatAck
    /\ UNCHANGED stokes_loaders

HypercubesNext ==
    \/ concat_request = NoConcat /\ \E req \in ConcatRequests : DoConcat(req)
    \/ OpenHypercube \/ HypercubeKept

HypercubesSpec == HypercubesInit /\ [][HypercubesNext]_hypercubeVars

-----------------------------------------------------------------------------
\* A hypercube has a plane for each file of the request, labelled with the
\* polarization given for it, of files of one kind and shape, in ascending order.
\* Exceptions: files of no polarization, and labels that are not initialized.
PlanesAsAsked ==
    hypercube # <<>> =>
        /\ \A i \in DOMAIN hypercube :
              \/ \E j \in DOMAIN concat_request :
                    /\ concat_request[j].type = hypercube[i].label
                    /\ concat_request[j].file = hypercube[i].file
              \/ hypercube[i].label = Unset /\ \E t \in TypesOf(concat_request) : t > 12
        /\ Len(hypercube) = Cardinality(TypesOf(concat_request) \ {0})
        /\ \A i, j \in DOMAIN hypercube :
              /\ hypercube[i].file.shape = hypercube[j].file.shape
              /\ hypercube[i].file.kind = hypercube[j].file.kind
              /\ i < j /\ hypercube[j].label # Unset => hypercube[i].label < hypercube[j].label

\* Its polarization axis can be written to a FITS header, in equal steps, unless
\* it mixes I to V with RR to YX.
AxisLinear ==
    LET labels == [i \in DOMAIN hypercube |-> hypercube[i].label]
    IN Len(concat_request) > 2 =>
          \/ EqualSteps(labels)
          \/ \E i, j \in DOMAIN labels : labels[i] \in 1..4 /\ labels[j] \in 5..12

\* Files that belong together are not refused if they come in ascending order;
\* three files in another order may be.
OrderedAccepted ==
    LET req == concat_request
        consistent == /\ \A i \in DOMAIN req :
                            req[i].file = req[1].file /\ req[i].file.opens /\ req[i].file.planes = 1
                      /\ TypesOf(req) \subseteq Labels
    IN (Len(req) >= 2 /\ consistent /\ \A i \in 1..Len(req) - 1 : req[i].type < req[i + 1].type) =>
          concat_error \in {NoError, "library"} \/ ~EqualSteps(Types(req))

\* No file stays open after the response.
LoadersFreed == concat_ack.sent => stokes_loaders = {}

HypercubesCorrect == PlanesAsAsked /\ AxisLinear /\ OrderedAccepted /\ LoadersFreed
=============================================================================
