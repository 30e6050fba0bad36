------------------------------- MODULE MCOcr -------------------------------
(* The three converters that send pages to a service, each from initial       *)
(* states of its own: the Paddle route, the MinerU adapter, a folder of PDFs. *)
EXTENDS PaddleChunks, FolderOcr, MineruBatches
VARIABLE route

Input(kind, name, pages) == [kind |-> kind, html |-> FALSE, name |-> name, pages |-> pages]
MCSources == [
  long |-> Input("pdf", "book", 4), short |-> Input("pdf", "note", 2), twin |-> Input("pdf", "note", 2),
  page |-> [Input("file", "page", 0) EXCEPT !.html = TRUE],
  web |-> [Input("url", "web", 0) EXCEPT !.html = TRUE], net |-> Input("url", "net", 0)]
MCWeight == [s \in DOMAIN MCSources |-> IF s = "long" THEN 2 ELSE 1]
Job(inputs, ranges, ids, worker) == [inputs |-> inputs, ranges |-> ranges, ids |-> ids, worker |-> worker]
MCJobs ==
  { Job(<<"long">>, <<>>, TRUE, TRUE),
    Job(<<"long">>, << <<1, 1>>, <<3, -1>> >>, FALSE, TRUE),
    Job(<<"long", "short", "page", "web">>, <<>>, TRUE, FALSE),
    Job(<<"short", "twin", "long", "web", "net">>, << <<2, 2>>, <<1, 2>> >>, TRUE, FALSE),
    Job(<<"short", "twin", "net">>, <<>>, FALSE, FALSE),
    Job(<<"short", "long">>, << <<0, 1>> >>, TRUE, FALSE) }

MCOrder == <<"Deep A", "Deep_A", "Other">>
MCBase == [f \in ToSet(MCOrder) |-> IF f = "Other" THEN "Other" ELSE "Deep_A"]
MCChunks == [f \in ToSet(MCOrder) |-> IF f = "Deep A" THEN 2 ELSE 1]

MCPageCount == <<5, 2>>
MCSelection == << <<1, 2, 4, 5>>, <<1, 2>> >>
MCTooLarge == {<<1, 4, 5>>}

CONSTANT Converters
OcrInit ==
  /\ route \in Converters
  /\ Init /\ MineruInit /\ FolderInit
  /\ route # "mineru" => job = CHOOSE j \in MCJobs : TRUE
  /\ \A f \in File : folder[f].route = IF route # "folder" \/ f = "Other" THEN "text" ELSE "ocr"

OcrNext ==
  /\ UNCHANGED route
  /\ \/ route = "paddle" /\ Next /\ UNCHANGED <<mineruVars, folderVars>>
     \/ route = "mineru" /\ MineruNext /\ UNCHANGED <<vars, folderVars>>
     \/ route = "folder" /\ FolderNext /\ UNCHANGED <<vars, mineruVars>>

ocrVars == <<route, vars, mineruVars, folderVars>>
OcrSpec == OcrInit /\ [][OcrNext]_ocrVars

\* The fairness of each converter, in the behaviours that are its own.
OcrFairSpec ==
  /\ OcrSpec
  /\ WF_ocrVars(route = "paddle" /\ Step /\ UNCHANGED <<route, mineruVars, folderVars>>)
  /\ WF_ocrVars(route = "paddle" /\ StartRun(run.model) /\ UNCHANGED <<route, mineruVars, folderVars>>)
  /\ WF_ocrVars(route = "paddle" /\ (\E j \in DOMAIN jobs : Finish(j)) /\ UNCHANGED <<route, mineruVars, folderVars>>)
  /\ WF_ocrVars(route = "folder" /\ (StartFolder \/ EndRun) /\ UNCHANGED <<route, vars, mineruVars>>)
  /\ \A f \in File :
       WF_ocrVars(route = "folder" /\ BookStep(f) /\ UNCHANGED <<route, vars, mineruVars>>)

\* Every PDF is converted in the end: see EveryPdfIsRead and FolderConverted.
ConvertersFinish ==
  /\ route = "paddle" => EveryPdfIsRead
  /\ route = "folder" => FolderConverted
=============================================================================
