----------------------------- MODULE MCAgentRun -----------------------------
(***************************************************************************)
(* Model-checking instances of AgentRun.  The shipped registry holds       *)
(* search_documents only; the instances add a second tool, as a deployment *)
(* that overrides get_tool_registry does, because the gateway's allowlist  *)
(* decides nothing without one.                                            *)
(***************************************************************************)
EXTENDS AgentRun

AllDrills == {"none", "coverage_gap"} \cup OnceLLM \cup OnceTool \cup PermanentLLM \cup PermanentTool
=============================================================================
