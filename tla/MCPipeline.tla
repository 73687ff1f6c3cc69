------------------------------ MODULE MCPipeline ------------------------------
(***************************************************************************)
(* Instances of Pipeline for TLC.                                          *)
(***************************************************************************)
EXTENDS Pipeline

CONSTANTS crawl1, crawl2, process1, process2, index1

MCStageOf == [w \in Workers |->
                CASE w \in {crawl1, crawl2}     -> "changed"
                  [] w \in {process1, process2} -> "processed"
                  [] OTHER                      -> "indexed"]

\* A processor that finds all documents of a page.
AllFound == {Docs}
===============================================================================
