--------------------------- MODULE MCAgentWebhook ---------------------------
(***************************************************************************)
(* Instances of AgentWebhook for TLC: label lists that lack a Coder label, *)
(* have both kinds in the unlucky order, and name a template.              *)
(***************************************************************************)
EXTENDS AgentWebhook

Label(base, slug) == [base |-> base, slug |-> slug]
MCLabelLists ==
    {<<>>,
     <<Label("coder-agent", ""), Label("coder-workspace", "")>>,
     <<Label("bug", ""), Label("coder-workspace", "jupyter")>>}
=============================================================================
