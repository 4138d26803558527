---------------------------- MODULE MCFollowing ----------------------------
(* Captures that come to an end, and what follows the chat in its host: the  *)
(* application that is bound to it, and the buttons under its replies.  They *)
(* are kept apart, so a behaviour follows one of them (part).                *)
EXTENDS MCCaptureWorkflow, PreviewLookup, ChatBinding

VARIABLE part
followVars == <<vars, setting, lookupVars, bindingVars, part>>

(* At first one reply has a detail; the chats of the host are alike.       *)
MCInit == /\ part \in {"capture", "binding", "lookup"}
          /\ kept \in {[k \in Slots |-> IF k = s THEN 1 ELSE 0] :
                          s \in IF part = "lookup" THEN Slots ELSE {None}}
          /\ Init /\ setting \in Settings /\ LookupInit
          /\ BindingInit /\ host \in IF part = "binding" THEN {Chatless, 1} ELSE {Chatless}
MCNext == \/ part = "capture" /\ Next /\ UNCHANGED <<setting, lookupVars, bindingVars, part>>
          \/ part = "lookup" /\ LookupNext /\ UNCHANGED <<vars, setting, bindingVars, part>>
          \/ part = "binding" /\ BindingNext /\ UNCHANGED <<vars, setting, lookupVars, part>>
\* As in FairSpec; and lookups end, announcements are made, the host asks
\* again; and as in BindingSpec.
MCFairness ==
    /\ WF_vars(part = "capture" /\ Work)
    /\ WF_vars(part = "capture" /\ Begin)
    /\ WF_vars(part = "capture" /\ Rebound)
    /\ WF_vars(part = "capture" /\ SwitchBack)
    /\ WF_vars(part = "capture" /\ StartAgain)
    /\ WF_lookupVars(part = "lookup" /\ LookupWork)
    /\ WF_lookupVars(part = "lookup" /\ Resolve)
    /\ WF_bindingVars(part = "binding" /\ BindingWork)
MCSpec == MCInit /\ [][MCNext]_followVars /\ MCFairness
=============================================================================
