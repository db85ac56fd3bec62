---------------------------- MODULE MCGithubRunner ----------------------------
(* GithubRunner on a small instance.                                       *)
EXTENDS GithubRunner
=============================================================================
