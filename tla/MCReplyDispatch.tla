--------------------------- MODULE MCReplyDispatch ---------------------------
\* Replies for TLC: the combinations of kinds that process_reply treats together.
EXTENDS ReplyDispatch

CONSTANTS a, b, c

D(k, t) == [kind |-> k, on |-> t, valid |-> TRUE]
Invalid(k, t) == [kind |-> k, on |-> t, valid |-> FALSE]
Plain(dirs) == [says |-> "prose", dirs |-> dirs]

MCReplies ==
    { Plain(<<>>),
      [says |-> "malformed", dirs |-> <<D("create", a)>>],
      [says |-> "stall", dirs |-> <<D("mcp", a)>>],
      [says |-> "claim", dirs |-> <<>>],
      [says |-> "nothing", dirs |-> <<D("mcp", a)>>],
      Plain(<<D("run", b), D("create", a), D("send", a)>>),
      Plain(<<D("read", a), D("read", b), D("edit", a), D("run", b)>>),
      Plain(<<D("edit", b), D("search", a)>>),
      Plain(<<D("create", a), D("edit", a), D("runterm", b)>>),
      Plain(<<D("mcp", a), Invalid("run", a), D("run", b)>>),
      Plain(<<Invalid("create", b), D("search", a)>>),
      Plain(<<D("run", a), D("task", a), D("browser", b), D("subagent", a)>>),
      Plain(<<D("run", a), D("visual", a), D("run", b), D("runterm", b), D("visual", b)>>),
      Plain(<<Invalid("run", a), Invalid("visual", a), D("visual", b), D("search", a)>>),
      Plain(<<D("subagent", a), D("subagent", b), D("subagent", c), D("screenshot", a)>>),
      Plain(<<D("screenshot", a)>>) }
=============================================================================
