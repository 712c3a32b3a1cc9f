-------------------------- MODULE PlanningService --------------------------
(***************************************************************************)
(* Processes that plan missions: the ROS node (handle_plan in              *)
(* mission_planner_node.cpp), which serves one request at a time, beside   *)
(* others and the command line tool.  A request is loaded with its maps,   *)
(* planned, and exported into its output directory, file by file           *)
(* (PlanExporter::write); the answer says whether all of that succeeded.   *)
(*                                                                         *)
(* A request is [valid, settings, directory, animate].  Of a file in an    *)
(* output directory it is known whether the latest request that uses the   *)
(* directory has written it.                                               *)
(***************************************************************************)
EXTENDS MapCache, Sequences

CONSTANTS Requests,
          MostRequests   \* bounds how many requests are made in all

VARIABLES
  service,    \* of each process: what it does for which request
  disk,       \* of every file of an output directory: "old", not written since the
              \* latest request for the directory came, "cut" short, or "whole"
  received    \* how many requests were made

vars == <<cacheVars, service, disk, received>>

Directories == {r.directory : r \in Requests}
Outputs == <<"plan.json", "summary.txt", "routes.png", "routes_overall.gif">>
AllOld == [k \in DOMAIN Outputs |-> "old"]

Waiting == [step |-> "waiting", request |-> <<>>, written |-> 0]

Init ==
  /\ cacheInit
  /\ service = [p \in Processes |-> Waiting]
  /\ disk = [d \in Directories |-> AllOld]
  /\ received = 0

Serving(p) == service[p].step \in {"loading", "planning", "exporting"}

Wanted(r) == IF r.animate THEN Len(Outputs) ELSE Len(Outputs) - 1

Goes(p, step) == service' = [service EXCEPT ![p].step = step]

(* An exception is answered, and leaves nothing behind in the process.     *)
Refuse(p) == service' = [service EXCEPT ![p] = Waiting]

(* "Results of the same name are overwritten, so that each request should  *)
(* use a directory of its own" (README.md:72): no two requests use one at  *)
(* a time.  What is wrong with a request is told before anything is done.  *)
Receive(p) ==
  /\ ~Serving(p) /\ received < MostRequests
  /\ received' = received + 1
  /\ \E r \in Requests :
       /\ \A q \in Processes : Serving(q) => service[q].request.directory # r.directory
       /\ IF r.valid
          THEN /\ service' = [service EXCEPT ![p] =
                    [step |-> "loading", request |-> r, written |-> 0]]
               /\ disk' = [disk EXCEPT ![r.directory] = AllOld]
               /\ Load(p, r.settings)
          ELSE Refuse(p) /\ UNCHANGED <<cacheVars, disk>>

Loaded(p) ==
  /\ service[p].step = "loading" /\ job[p].step \in {"loaded", "failed"}
  /\ IF At(p, "loaded") THEN Goes(p, "planning") ELSE Refuse(p)
  /\ job' = [job EXCEPT ![p] = Idle]
  /\ UNCHANGED <<source, files, entry, temporary, disk, received>>

(* Planning works on the request alone, and may end in an exception. *)
Plan(p) ==
  /\ service[p].step = "planning"
  /\ \/ Goes(p, "exporting") \/ Refuse(p)
  /\ UNCHANGED <<cacheVars, disk, received>>

Directory(p) == service[p].request.directory

WithFile(p, k, state) == [disk EXCEPT ![Directory(p)][k] = state]

(* plan.json and summary.txt are only tested when they are opened: a disk  *)
(* that is full by the time they are written leaves them cut, unnoticed.   *)
Untested == IF "full_disk" \in Mishaps THEN {"cut", "whole"} ELSE {"whole"}

(* The plan is written first but stays open until the export returns: only *)
(* then its last part reaches the file.                                    *)
Written(k) == CASE k = 1 -> {"cut"} [] k = 2 -> Untested [] k > 2 -> {"whole"}

Export(p) ==
  /\ service[p].step = "exporting"
  /\ LET k == service[p].written + 1
     IN /\ k <= Wanted(service[p].request)
        /\ \E state \in Written(k) : disk' = WithFile(p, k, state)
        /\ service' = [service EXCEPT ![p].written = k]
  /\ UNCHANGED <<cacheVars, received>>

PlanLeftOpen(p, state) == disk   \* mutated: the answer goes out before the plan is closed

PlanClosed(p, state) == IF service[p].written = 0 THEN disk ELSE WithFile(p, 1, state)

(* A file cannot be opened, an image or the animation cannot be written,   *)
(* which leaves it cut, or a map's image cannot be read again.             *)
ExportFails(p) ==
  /\ service[p].step = "exporting"
  /\ LET k == service[p].written + 1
     IN /\ k <= Wanted(service[p].request)
        /\ \E state \in Untested :
             LET closed == PlanClosed(p, state)
             IN \/ disk' = closed
                \/ k > 2 /\ disk' = [closed EXCEPT ![Directory(p)][k] = "cut"]
  /\ Refuse(p)
  /\ UNCHANGED <<cacheVars, received>>

Exported(p) ==
  /\ service[p].step = "exporting"
  /\ service[p].written = Wanted(service[p].request)
  /\ \E state \in Untested : disk' = PlanClosed(p, state)
  /\ service' = [service EXCEPT ![p] = [Waiting EXCEPT !.step = "done"]]
  /\ UNCHANGED <<cacheVars, received>>

(* A process dies and is started again: its files stay as they are.        *)
Crash(p) ==
  /\ Serving(p)
  /\ job' = [job EXCEPT ![p] = Idle]
  /\ service' = [service EXCEPT ![p] = Waiting]
  /\ UNCHANGED <<source, files, entry, temporary, disk, received>>

LoadMap(p) ==
  /\ service[p].step = "loading"
  /\ LoadStep(p)
  /\ UNCHANGED <<service, disk, received>>

EditSource == Edit /\ UNCHANGED <<service, disk, received>>

Serve(p) == LoadMap(p) \/ Loaded(p) \/ Plan(p) \/ Export(p) \/ ExportFails(p) \/ Exported(p)

Next == EditSource \/ \E p \in Processes : Receive(p) \/ Serve(p) \/ Crash(p)

Spec == Init /\ [][Next]_vars
-----------------------------------------------------------------------------
(* "successful=true: reason is the path of the plan.json generated"        *)
(* (README.md:63): when a process says so, every file of the plan is in    *)
(* the directory, whole and of this request, whatever a request before it  *)
(* left there half written by failing or crashing.                         *)
SuccessIsOnDisk ==
  [][\A p \in Processes :
       service[p].step # "done" /\ service'[p].step = "done" =>
         \A k \in 1..Wanted(service[p].request) :
           disk'[Directory(p)][k] = "whole"]_vars
=============================================================================
