----------------------------- MODULE Utilities ------------------------------
(***************************************************************************)
(* The parts of the SDK that keep little or no state of their own, one      *)
(* machine each: the data classes of CppSQLite3, numbers in XML and JSON,   *)
(* what happens to the content of messages, the helpers of util_fun and     *)
(* blmbase, and the lifetimes of threads, pools and singletons.  They do    *)
(* not share state; `area` tells which of them a behaviour exercises.       *)
(***************************************************************************)
EXTENDS SqliteData, Numbers, Codecs, Helpers, Threads

VARIABLE area

vars == <<area, dataVars, numVars, codecVars, helperVars, threadsVars>>

Init ==
    /\ area \in {"sqlite", "numbers", "codecs", "helpers", "threads"}
    /\ DataInit /\ NumInit /\ CodecInit /\ HelpersInit /\ ThreadsInit
    /\ area # "sqlite" => subject = "row"
    /\ area # "threads" => focus = "threads"

Next ==
    /\ UNCHANGED area
    /\ \/ area = "sqlite" /\ DataNext /\ UNCHANGED <<numVars, codecVars, helperVars, threadsVars>>
       \/ area = "numbers" /\ NumNext /\ UNCHANGED <<dataVars, codecVars, helperVars, threadsVars>>
       \/ area = "codecs" /\ CodecNext /\ UNCHANGED <<dataVars, numVars, helperVars, threadsVars>>
       \/ area = "helpers" /\ HelpersNext /\ UNCHANGED <<dataVars, numVars, codecVars, threadsVars>>
       \/ area = "threads" /\ ThreadsNext /\ UNCHANGED <<dataVars, numVars, codecVars, helperVars>>

\* The loops of Zlib go on, and the operating system runs every thread.
Fairness ==
    /\ WF_vars(area = "codecs" /\ TryZlib /\ UNCHANGED <<area, dataVars, numVars, helperVars, threadsVars>>)
    /\ \A t \in ThreadObjs : WF_vars(area = "threads" /\ ThreadStep(t)
                                       /\ UNCHANGED <<area, dataVars, numVars, codecVars, helperVars>>)

Spec == Init /\ [][Next]_vars /\ Fairness

\* Every machine stays within its types.
TypeOK ==
    /\ TypeOKData
    /\ area # "sqlite" => subject = "row" /\ fault = ""
    /\ zlib.reslen \in Nat /\ Len(wire) + Len(heard) <= MaxMsgs + 1
    /\ blmlog_level \in LogLevels \cup {3} /\ blmlog_modules \subseteq LogModules
    /\ Alive \subseteq PoolObjs /\ living \cup given \subseteq Places

\* The data classes of CppSQLite3: fields by name and position, tables that
\* hand their results over, binary data through its encoding and back.
DataKept ==
    /\ TypeOK
    /\ ByNameAgrees /\ OneTablePerResult /\ FieldInPlace
    /\ BinaryKept /\ EncodedIsText /\ EncodingFits /\ RefusedStaysEncoded

\* Numbers through text and back, in XML and in JSON.
NumbersKept == NumberReadsBack /\ TruthKept /\ JsonNumberClose

\* The content of messages through compression and encryption and back, and
\* the sizes of the buffers on the way.
ContentKept == ServerReadsAll /\ DecodeUndoesSend /\ SizesFit

\* The helpers against what their callers expect: lists, strings, the time a
\* timer is due, the lines that are logged.
HelpersExact ==
    /\ ListRoundTrip /\ IntsRoundTrip /\ TrimExact /\ ReplaceIsSplitJoin /\ CompareOrders
    /\ DueOnTime /\ ShownAsAsked

\* Threads, borrowed pools and singletons: nothing is used before it is there
\* or after it is gone, within the named ways to misuse them.
LifetimesNest == DestroyWaits /\ FaultOnlyByRejoin /\ NestedPoolsSafe /\ OneForAll

\* What loops or waits comes to an end.
LoopsEnd == ZlibEnds /\ DestroyReturns
=============================================================================
