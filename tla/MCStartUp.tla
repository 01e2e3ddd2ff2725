------------------------------ MODULE MCStartUp -------------------------------
EXTENDS StartUp

MCRow(status, wanted, job) ==
  [status |-> status, wanted |-> wanted, attempts |-> 0, job |-> job]
MCPlain(row) == [row |-> row, drm |-> FALSE, cover |-> "none"]

MCOldItems ==
  {MCPlain(MCRow("excluded", FALSE, "queued")), MCPlain(MCRow("queued", FALSE, "queued")),
   MCPlain(MCRow("queued", TRUE, "queued")), MCPlain(MCRow("skipped", FALSE, "running")),
   MCPlain(MCRow("downloading", TRUE, "running")), MCPlain(MCRow("cancelled", TRUE, "none")),
   [MCPlain(MCRow("failed_permanent", TRUE, "none")) EXCEPT !.drm = TRUE],
   [MCPlain(MCRow("completed", TRUE, "none")) EXCEPT !.cover = "embedded"],
   [MCPlain(MCRow("missing", TRUE, "none")) EXCEPT !.cover = "embedded"]}

\* The logout counter, and a row that isn't an object any more.
MCSpoils == {{"epoch"}, Security}

\* Sessions, and what may bring them back; sessions, and what else writes their group;
\* and settings pages with both groups.
MCMixes ==
  {{"login", "logout", "password", "page"}, {"login", "logout", "password", "open", "skip"},
   {"password", "open", "page", "form", "account", "clear"}}
===============================================================================
