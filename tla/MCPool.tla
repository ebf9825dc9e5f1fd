--------------------------------- MODULE MCPool ---------------------------------
(***************************************************************************)
(* Small instances of Pool: two workers, three or five tasks.              *)
(***************************************************************************)
EXTENDS Pool

\* 1 starts 2, which yields, 3 waits for 2, 4 starts 5, which ends at once.
\* Five calls of go() put three requests into the first ring of two: it holds
\* two at once, wraps around, and is found full.
MCTasks == 1 .. 5
MCBody  == << <<<<"go", 2>>>>, <<<<"yield">>>>, <<<<"wait", 2>>>>, <<<<"go", 5>>>>, << >> >>
MCGo    == <<3, 1, 4>>

\* As much of it as the stranded context needs.
FewTasks == 1 .. 3
FewGo    == <<1, 3>>
FewBody  == << <<<<"go", 2>>, <<"yield">>>>, <<<<"yield">>>>, <<<<"wait", 2>>>> >>
===============================================================================
