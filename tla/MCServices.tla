---- MODULE MCServices ----
(***************************************************************************)
(* What a run and its front ends rely on, each component on its own: they  *)
(* share no state, so a behaviour explores one of them while the others    *)
(* rest in an initial state.                                               *)
(***************************************************************************)
EXTENDS EventStream, McpClient, Jobs, LlmCall, Delegation,
        Conversation, Overlay, MicroVm, Chat, Network

CONSTANT NewText    \* a text no file of the workspace has at first: a bound of the model

VARIABLE service    \* the component a behaviour explores

servicesVars ==
  <<service, streamVars, mcpVars, jobVars, llmVars, delVars,
    convVars, overlayVars, vmVars, chatVars, netVars>>

\* The others start in one state each.
ServicesInit ==
  /\ service \in {"stream", "mcp", "jobs", "llm", "delegation",
                  "conversation", "overlay", "microvm", "chat", "network"}
  /\ StreamInit
  /\ McpInit
  /\ JobInit
  /\ LlmInit
  /\ DelInit
  /\ ConvInit
  /\ OverlayInit
  /\ MicroVmInit
  /\ ChatInit
  /\ NetInit
  /\ service # "jobs" => backend = "local"
  /\ service # "llm" => (mode = "plain" /\ thinking = FALSE)
  /\ service # "conversation" => document = FALSE
  /\ service # "overlay" => (cow = FALSE /\ tree = [f \in Paths |-> Gone])
  /\ service # "microvm" => (provider = "e2b" /\ parallel = FALSE)
  /\ service # "network" => (daemon = "creates" /\ bridge = FALSE)
  /\ \A f \in Paths : tree[f] # NewText

ServicesNext ==
  \/ service = "stream" /\ StreamNext
     /\ UNCHANGED <<service, mcpVars, jobVars, llmVars, delVars,
                    convVars, overlayVars, vmVars, chatVars, netVars>>
  \/ service = "mcp" /\ McpNext
     /\ UNCHANGED <<service, streamVars, jobVars, llmVars, delVars,
                    convVars, overlayVars, vmVars, chatVars, netVars>>
  \/ service = "jobs" /\ JobNext
     /\ UNCHANGED <<service, streamVars, mcpVars, llmVars, delVars,
                    convVars, overlayVars, vmVars, chatVars, netVars>>
  \/ service = "llm" /\ LlmNext
     /\ UNCHANGED <<service, streamVars, mcpVars, jobVars, delVars,
                    convVars, overlayVars, vmVars, chatVars, netVars>>
  \/ service = "delegation" /\ DelNext
     /\ UNCHANGED <<service, streamVars, mcpVars, jobVars, llmVars,
                    convVars, overlayVars, vmVars, chatVars, netVars>>
  \/ service = "conversation" /\ ConvNext
     /\ UNCHANGED <<service, streamVars, mcpVars, jobVars, llmVars,
                    delVars, overlayVars, vmVars, chatVars, netVars>>
  \/ service = "overlay" /\ OverlayNext
     /\ UNCHANGED <<service, streamVars, mcpVars, jobVars, llmVars,
                    delVars, convVars, vmVars, chatVars, netVars>>
  \/ service = "microvm" /\ MicroVmNext
     /\ UNCHANGED <<service, streamVars, mcpVars, jobVars, llmVars,
                    delVars, convVars, overlayVars, chatVars, netVars>>
  \/ service = "chat" /\ ChatNext
     /\ UNCHANGED <<service, streamVars, mcpVars, jobVars, llmVars,
                    delVars, convVars, overlayVars, vmVars, netVars>>
  \/ service = "network" /\ NetNext
     /\ UNCHANGED <<service, streamVars, mcpVars, jobVars, llmVars,
                    delVars, convVars, overlayVars, vmVars, chatVars>>

ServicesSpec == ServicesInit /\ [][ServicesNext]_servicesVars
====
