---------------------------- MODULE MCClaudeQueue ----------------------------
(* Instances of ClaudeQueue for TLC: a batch of four jobs, one of them a   *)
(* triage, beside a digest.                                                *)
EXTENDS ClaudeQueue

MCJobs == {"j1", "j2", "j3", "triage"}
MCDirect == {"digest"}
MCEssential == {"triage"}
=============================================================================
