---------------------------- MODULE MCMysqlSeed ----------------------------
EXTENDS MysqlSeed

Run(m, a) == [mode |-> m, arg |-> a]
Gen(dbs, wrong) == Run("generate", [dbs |-> dbs, wrong |-> wrong])
Db(d, tables) == [db |-> d, tables |-> tables]

GenRuns ==
    {Gen(<<Db("d1", <<"t1">>)>>, FALSE),
     Gen(<<Db("d1", <<"t1", "t2">>), Db("d2", <<"t1">>)>>, FALSE),
     Gen(<<Db("d1", <<"t1">>), Db("d1", <<"t2">>)>>, FALSE),
     Gen(<<Db("d2", <<"t1", "t1">>)>>, FALSE),
     Gen(<<Db("d2", <<"t1">>)>>, TRUE),
     Gen(<<>>, TRUE)}

ExeRuns ==
    {Run("execute", a) : a \in
        {<<>>, <<"d1">>, <<"d1", "d2">>, <<"d1", "wrong", "d2">>, <<"wrong">>, <<"d1", "d1">>,
         <<"-u">>, <<"-u", "d1">>, <<"-u", "me", "-p", "d1">>, <<"-uNAME", "-pWORD", "d1">>,
         <<"-p", "-u", "me", "d1", "d2">>, <<"-pWORD", "-p", "d1">>}}

RemRuns ==
    {Run("remove", a) : a \in {<<>>, <<"d1">>, <<"d2", "d1">>, <<"d1", "d1">>, <<"-a">>}}

MCRuns == GenRuns \union ExeRuns \union RemRuns
            \union {Run("help", <<>>), Run("help", <<"remove">>), Run("other", <<>>)}
=============================================================================
