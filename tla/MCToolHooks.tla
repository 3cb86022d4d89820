---------------------------- MODULE MCToolHooks ----------------------------
EXTENDS ToolHooks

Plain == [minimal |-> FALSE, disabled |-> {}, present |-> {"hyphae", "mycelium", "rhizome"},
          denied |-> {}, allowed |-> {}, enforce |-> FALSE, suggest |-> TRUE, every |-> 2,
          clarify |-> FALSE, unclear |-> FALSE, stealth |-> FALSE]

MCSetting ==
    {Plain,
     [Plain EXCEPT !.every = 0, !.stealth = TRUE, !.clarify = TRUE, !.unclear = TRUE],
     [Plain EXCEPT !.enforce = TRUE, !.every = 3, !.denied = {"Write"}],
     [Plain EXCEPT !.enforce = TRUE, !.present = {"mycelium"}, !.allowed = {"Bash", "Edit"},
                   !.clarify = TRUE],
     [Plain EXCEPT !.minimal = TRUE],
     [Plain EXCEPT !.disabled = {"PostToolUse", "Stop"}]}

C(tool, file, traits) == [tool |-> tool, file |-> file, traits |-> traits]

MCCall ==
    {C("Bash", "md", {"destructive"}),
     C("Bash", "md", {"search", "commit"}),
     C("Edit", "ts", {}), C("Write", "rs", {}),
     C("symbols", "md", {}),
     C("Grep", "rs", {"symbol"}),
     C("Bash", "md", {"unparsed"})}
=============================================================================
