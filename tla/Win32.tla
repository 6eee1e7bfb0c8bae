------------------------------- MODULE Win32 -------------------------------
(***************************************************************************)
(* The Windows guest: the loader and the commands that run an image, and   *)
(* the shims as its one thread calls them, in any order. Handles are       *)
(* shared by synchronisation and files. Slots, memory and the image share  *)
(* no state with them, so every behaviour is one of a `focus`: what the    *)
(* others do would only be steps in between.                               *)
(***************************************************************************)
EXTENDS GuestSync, GuestFiles, GuestSlots, GuestMemory, PeCommand

VARIABLE focus

win32Vars == <<handleVars, syncVars, fileVars, slotVars, memoryVars, commandVars, focus>>

Init ==
  /\ HandlesInit /\ SyncInit /\ FilesInit /\ SlotsInit /\ MemoryInit
  /\ CommandInit
  /\ focus \in {"sync", "files", "slots", "memory", "image"}
  /\ focus # "image" => cmd = CHOOSE c \in Commands : TRUE
  /\ focus # "image" => image = CHOOSE i \in Images : TRUE

Next ==
  /\ UNCHANGED focus
  /\ \/ /\ focus = "sync" /\ SyncNext
        /\ UNCHANGED <<fileVars, slotVars, memoryVars, commandVars>>
     \/ /\ focus = "files" /\ FilesNext
        /\ UNCHANGED <<syncVars, slotVars, memoryVars, commandVars>>
     \/ /\ focus = "slots" /\ SlotsNext
        /\ UNCHANGED <<handleVars, syncVars, fileVars, memoryVars, commandVars>>
     \/ /\ focus = "memory" /\ MemoryNext
        /\ UNCHANGED <<handleVars, syncVars, fileVars, slotVars, commandVars>>
     \/ /\ focus = "image" /\ CommandNext
        /\ UNCHANGED <<handleVars, syncVars, fileVars, slotVars, memoryVars>>

Spec == Init /\ [][Next]_win32Vars

-----------------------------------------------------------------------------
TypeOK ==
  /\ SyncTypeOK /\ FilesTypeOK /\ SlotsTypeOK /\ MemoryTypeOK /\ CommandTypeOK
  /\ DOMAIN object \subseteq Addresses /\ \A h \in DOMAIN object : object[h] \in Kinds
  /\ DOMAIN desc \subseteq Fds
=============================================================================
