----------------------------- MODULE MainWindow -----------------------------
(***************************************************************************)
(* The main window with the tools it opens.  They share the thread of the   *)
(* windows, the dialog in front and nRow; each has its own state, and other *)
(* programs and the workers go on while a dialog is open.                   *)
(***************************************************************************)
EXTENDS ProcessTools, ServiceList, StartUp, SoftwareList, FileList, ProjectCleaner

vars == <<shell, procVars, servVars, startVars, softVars, fileVars, cleanVars>>

Init ==
  /\ AppInit
  /\ ProcInit /\ ServInit /\ StartInit /\ SoftInit /\ FileInit /\ CleanInit

Next ==
  /\ modal # "ended"
  /\ \/ ProcStep /\ UNCHANGED <<servVars, startVars, softVars, fileVars, cleanVars>>
     \/ ServStep /\ UNCHANGED <<procVars, startVars, softVars, fileVars, cleanVars>>
     \/ StartStep /\ UNCHANGED <<procVars, servVars, softVars, fileVars, cleanVars>>
     \/ SoftStep /\ UNCHANGED <<procVars, servVars, startVars, fileVars, cleanVars>>
     \/ FileStep /\ UNCHANGED <<procVars, servVars, startVars, softVars, cleanVars>>
     \/ CleanStep /\ UNCHANGED <<procVars, servVars, startVars, softVars, fileVars>>

\* The scheduler runs the workers; the user answers the error box of a walk, which is
\* in front of its window.
Fairness ==
  /\ \A n \in 1 .. MaxHeaps :
       WF_vars(modal # "ended" /\ HeapWorker(n)
                 /\ UNCHANGED <<servVars, startVars, softVars, fileVars, cleanVars>>)
  /\ \A n \in 1 .. MaxFileLists :
       WF_vars(modal # "ended" /\ FileWorker(n)
                 /\ UNCHANGED <<procVars, servVars, startVars, softVars, cleanVars>>)

Spec == Init /\ [][Next]_vars /\ Fairness

TypeOK ==
  /\ tools \in Sessions
  /\ ProcTypeOK /\ ServTypeOK /\ StartTypeOK /\ SoftTypeOK /\ FileTypeOK /\ CleanTypeOK

\* Every worker ends, or is ended with its window, also one whose window was closed by
\* Escape or is gone (CHeapDialog.cpp, 55 to 97; CFilesDialog.cpp, 57 to 154).
WorkersEnd ==
  /\ \A n \in 1 .. MaxHeaps :
       heapWork[n].pc # "none" ~> heapWork[n].pc \in {"done", "killed"} \/ modal = "ended"
  /\ \A n \in 1 .. MaxFileLists :
       fileWork[n].pc # "none" ~> fileWork[n].pc = "done" \/ modal = "ended"

=============================================================================
