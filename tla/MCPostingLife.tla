---------------------------- MODULE MCPostingLife ---------------------------
(* PostingLife over raw postings on each side of every threshold.          *)
EXTENDS PostingLife

MCRaws == [url : Urls, posting : Postings, company : Companies,
           named : BOOLEAN, date : Dates, age : {5, 12, 28},
           salaryMin : BOOLEAN, salaryMax : BOOLEAN, figures : {1, 2},
           text : {200, 201, 500, 501}, markup : {0, 1}]
=============================================================================
