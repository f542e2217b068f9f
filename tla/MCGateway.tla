----------------------------- MODULE MCGateway -----------------------------
EXTENDS CapabilityGateway, TLC

\* Clients that use a policy update beside any handler that needs no gateway
\* receipt, a relocation beside one that changes the same registration, or two
\* that meet in a registration or a path,
\* trust beside a handler that sets it too, typed profiles and what removes them,
\* and the capabilities whose state is elsewhere.
Handlers ==
    {"register", "unregister", "rename", "patch", "promote", "create", "group", "policy"}
Clients ==
    {{"policy", o} : o \in Handlers} \cup {{"relocate", o} : o \in {"policy", "register", "unregister", "patch"}}
    \cup {{"register", "unregister"}, {"promote", "create"}, {"patch", "rename"},
          {"trust", "policy"}, {"browser"}, {"slot"},
          {"command", "remove"}, {"command", "cleanup"}, {"nothing"}, {"digest"}}
Symmetric == Permutations(Runtimes) \cup Permutations(Workspaces) \cup Permutations(Paths)
=============================================================================
