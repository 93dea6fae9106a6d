---- MODULE MC_BootConfig ----
EXTENDS BootConfig

\* The sizes of BOOT_CONFIG in main.c.
MCSizeOf == [default_entry |-> 64, language |-> 8, kernel |-> 128, initrd |-> 128, cmdline |-> 256]

Text(from, len) == [from |-> from, len |-> len]
Section(name, valid) == [kind |-> "section", name |-> name, valid |-> valid]
Pair(key, value) == [kind |-> "pair", key |-> key, value |-> value]

\* Headers that count and one that does not, values that fit exactly, values one
\* character too long, a boolean that is no boolean, a timeout that turns negative.
Lines ==
  {Section("boot", TRUE), Section("linux", TRUE), Section("boot", FALSE), [kind |-> "skip"],
   Pair("kernel", Text("ini1", 127)), Pair("kernel", Text("ini2", 128)),
   Pair("menu_timeout", 600), Pair("secure_boot", "true"), Pair("secure_boot", "junk")}

\* Files of FileLines lines; the first one is a header or a comment.
FileLines == 3
MCIniFiles ==
  {<< >>} \cup {file \in [1..FileLines -> Lines] : file[1].kind # "pair"}

MCJsonFiles ==
  {<< >>, [other |-> 0],
   [kernel |-> Text("json", 20), menu_timeout |-> 301],
   [kernel |-> Text("json", 511), secure_boot |-> "true"]}

MCEnvStores ==
  {<< >>, [kernel |-> Text("env", 127), menu_timeout |-> 1023],
   [kernel |-> Text("env", 200), secure_boot |-> 0], [kernel |-> Text("env", 256)]}

\* Values that fit their buffers on the way.
MCFittingEnv == {<< >>, [kernel |-> Text("env", 100)]}

====
