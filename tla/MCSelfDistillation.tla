------------------------- MODULE MCSelfDistillation -------------------------
\* An instance of SelfDistillation: every setting of self_distillation.
EXTENDS SelfDistillation

Setting == [expert : BOOLEAN, feedback : BOOLEAN, onlywithout : BOOLEAN,
            notself : BOOLEAN, always : BOOLEAN, skipcorrect : BOOLEAN]

\* Settings that another one makes irrelevant are tried once.
MCAllConfigs ==
    {c \in Setting :
        /\ c.expert => ~c.feedback /\ ~c.onlywithout /\ ~c.notself
        /\ ~c.expert => ~c.skipcorrect
        /\ ~c.feedback => ~c.onlywithout}
=============================================================================
