------------------------------- MODULE MCIngest -------------------------------
(***************************************************************************)
(* Instances of Ingest: two pages or portals of a site, two resolutions    *)
(* listed on overlapping listing pages, three links of which two share     *)
(* their file name, one retry, three files over two slots.                 *)
(***************************************************************************)
EXTENDS Ingest

MCLinks == {"u1", "u2"}
MCLocalFiles == {"f1", "f2", "f3"}
MCBase == [x \in MCLinks \cup MCLocalFiles |->
             IF x \in {"u1", "f1"} THEN "a.pdf" ELSE x]
MCBnmPages == <<"b1", "b2">>
MCScPages == <<"s1", "s2">>
MCPageLinks == {<<>>, <<"u1", "u2">>}
MCListings == {<<>>, <<"r1">>, <<"r1", "r2">>}
MCListingPages == <<"p1", "p2">>
MCWorkers == 1 .. 3
MCFiles == <<"f1", "f2", "f3">>

Plain == [source |-> "", input |-> FALSE, url |-> FALSE, policy |-> FALSE,
          script |-> FALSE, embed |-> FALSE, dryRun |-> FALSE]
MCCommands ==
    { Plain,
      [Plain EXCEPT !.input = TRUE, !.url = TRUE, !.embed = TRUE],
      [Plain EXCEPT !.url = TRUE, !.dryRun = TRUE],
      [Plain EXCEPT !.source = "process", !.embed = TRUE],
      [Plain EXCEPT !.source = "bnm", !.embed = TRUE],
      [Plain EXCEPT !.source = "bnm", !.policy = TRUE, !.embed = TRUE],
      [Plain EXCEPT !.source = "bnm", !.policy = TRUE, !.script = TRUE],
      [Plain EXCEPT !.source = "bnm", !.input = TRUE, !.policy = TRUE],
      [Plain EXCEPT !.source = "sc", !.embed = TRUE],
      [Plain EXCEPT !.source = "sc", !.script = TRUE],
      [Plain EXCEPT !.source = "iifa"],
      [Plain EXCEPT !.source = "iifa", !.script = TRUE],
      [Plain EXCEPT !.source = "fatwa", !.embed = TRUE],
      [Plain EXCEPT !.source = "aaoifi"] }

MCBatches ==
    { [site |-> "bnm", local |-> TRUE, links |-> <<"f1", "u1", "u2">>],
      [site |-> "bnm", local |-> FALSE, links |-> <<"u1", "u2">>],
      [site |-> "sc", local |-> TRUE, links |-> <<"f1", "u1">>],
      [site |-> "iifa", local |-> TRUE, links |-> <<"f1", "u2">>] }
===============================================================================
