--------------------------- MODULE MCToolGateway ---------------------------
(* Small instances of ToolGateway.                                         *)
EXTENDS ToolGateway, TLC

CONSTANTS mail, files, staff, drop, override

Mail == [groups |-> {staff}, backend |-> "mock_email", max_args |-> 1,
         patterns |-> {}, domains |-> {drop}, tells |-> {override}]
Files == [groups |-> {staff}, backend |-> "mcp_filesystem", max_args |-> 1,
          patterns |-> {drop}, domains |-> {}, tells |-> {}]
Open == [challenge |-> 1, block |-> 3, mode |-> "allow",
         tools |-> (mail :> Mail @@ files :> Files)]
\* the files tool lost its group, the mail tool its backend, nothing is held
Tight == [challenge |-> 1, block |-> 2, mode |-> "block",
          tools |-> (mail :> [Mail EXCEPT !.backend = "other"]
                     @@ files :> [Files EXCEPT !.groups = {}])]
\* the mail tool moved to the MCP server, the files tool is gone
Moved == [challenge |-> 2, block |-> 3, mode |-> "audit_only",
          tools |-> (mail :> [Mail EXCEPT !.backend = "mcp_filesystem"] @@ files :> NoTool)]
mcToolPolicies == {Open, Tight, Moved}
mcRags == {{}, {override}}

Mid == [tool |-> files, groups |-> {staff}, fits |-> {"mcp_filesystem"}, size |-> 1,
        marks |-> {}, risk |-> 1]
mcCalls ==
    {Mid, [Mid EXCEPT !.risk = 0], [Mid EXCEPT !.marks = {drop}, !.risk = 0],
     [Mid EXCEPT !.tool = mail, !.fits = {"mock_email"}]}
mcSymmetry == Permutations(Ids)
=============================================================================
